---- MODULE Spec2Model ----
(***************************************************************************)
(* A model of the monkey-test runner: the concurrency-limited scheduler    *)
(* runWithConcurrency, the per-test executor executeTest with its remote   *)
(* session, and the runner's session registry and shutdown handler.        *)
(*                                                                         *)
(* JavaScript runs one callback at a time.  A step of the model is one     *)
(* such callback: the code that runs from the settling of an awaited       *)
(* promise to the next await.  The scheduler's loop runs synchronously     *)
(* from one await to the next, so no promise settles while pc = "loop".    *)
(***************************************************************************)
EXTENDS Integers, FiniteSets, Sequences, TLC

VARIABLES
    items,           \* runWithConcurrency: the input array (index 0..N-1)
    maxConcurrency,  \* runWithConcurrency: the limit K (config.maxConcurrency)
    pc,              \* runWithConcurrency: "idle", "loop", "race", "all", "done", "thrown"
    i,               \* runWithConcurrency: the loop index
    executing,       \* runWithConcurrency: indices whose promise is in `executing`
    results,         \* runWithConcurrency: the results array (Empty = a hole)
    call,            \* per item: the state of fn(item, index)
    returned,        \* per item: the value fn's promise fulfilled with (Empty before)
    error,           \* what runWithConcurrency threw: "none", "undefined-item", "rejected"
    writes,          \* per slot of results: how many times it was assigned
    outOfOrder,      \* whether some call settled while a call of a lower index ran
    variant,         \* which runner the process is: "dedicated", "pool", "fresh" (or "none")
    saveOutputs,     \* config.saveOutputs
    proc,            \* run(): "start", "pool", "tests", "final", "exited"
    exitCode,        \* the code given to process.exit (-1 while running)
    tpc,             \* per test: where its per-item function is
    tsess,           \* per test: the id of the session it uses (0 = null)
    tres,            \* per test: the result record while the function holds it
    tlast,           \* per test: lastStatus of the watch loop
    created,         \* number of sessions created so far (their ids are 1..created)
    stopCalls,       \* per session: stop calls issued, by issuer
    tasksIn,         \* per session: number of tasks submitted to it
    activeSessions,  \* BrowserUseTestRunner.activeSessions
    sessionPool,     \* BrowserUseTestRunner.sessionPool
    sigs,            \* number of SIGINT/SIGTERM signals received
    hpend,           \* per handler run: the stop calls it still awaits
    hsnap,           \* per handler run: the sessions it issued a stop call for
    hfail,           \* per handler run: the sessions whose stop call failed
    finalPend,       \* run()'s finally: the stop calls it still awaits
    openAtSig,       \* the sessions that were open when a signal arrived
    configFailOnError, \* config.failOnError, where getExitCode is applied alone
    xpc,             \* executeTest alone: where the call is
    xconf,           \* executeTest alone: config.saveOutputs and testCase.timeout
    session,         \* executeTest alone: `session` (0 = null, or the session's id)
    taskResult,      \* executeTest alone: `taskResult` with finalStatus (NoUpdate before)
    result,          \* executeTest alone: `result`
    saveAt,          \* saveOutputFiles: the number of files it has gone through
    xlog,            \* executeTest alone: what the call did (calls made, warnings)
    gpc,             \* generateTestCasesFromDiff: where the call is
    script,          \* the completions the generative service gives, call by call
    attempt,         \* callLLMWithRetry: `attempt`
    calls,           \* number of openai.chat.completions.create calls made
    lastError,       \* callLLMWithRetry: `lastError`
    rawResponse,     \* generateTestCasesFromDiff: `rawResponse`
    genError,        \* what generateTestCasesFromDiff threw ("none" if nothing)
    config,          \* run() in diff mode: this.config, as loadConfig built it
    repo,            \* getGitDiff: what git answered about the repository
    dpc,             \* run() in diff mode: where the call is
    dlog,            \* run() in diff mode: what it has done so far
    completion,      \* parseTestCasesFromXML: the <testcase> elements of the response
    maxCases,        \* generateTestCasesFromDiff: options.maxTestCases
    testCases,       \* generateTestCasesFromDiff: `testCases` (positions of the kept elements)
    testFilePaths,   \* saveTestCasesAsMarkdown: `filePaths`
    ppc,             \* generateTestCasesFromDiff from the parse on: where the call is
    mdCase,          \* a generated test case (name, description, task, expectedOutput)
    markdown,        \* the file generateMarkdownTestCase produced for it
    reparsed,        \* what parseTestCase returned for that file
    mpc,             \* the round trip: "generate", "parse", "parsed"
    stream,          \* task.watch(): the updates the stream yields, in order
    taken,           \* task.watch(): how many updates the loop has pulled
    wend,            \* how the watch loop ended: "open", "broke", "ended", "threw"
    delays,          \* callLLMWithRetry: the delays of the backoffs it waited, in order
    rawDiff,         \* getGitDiff: `diffResult`, the text git.diff gave
    sizeOption,      \* getGitDiff: options.maxDiffSize
    gitDiff          \* getGitDiff: what the call gave (Empty before it)

schedVars == <<items, maxConcurrency, pc, i, executing, results, call, returned, error,
               writes, outOfOrder>>
testVars == <<tpc, tsess, tres, tlast>>
remoteVars == <<created, stopCalls, tasksIn>>
registryVars == <<activeSessions, sessionPool>>
sigVars == <<sigs, hpend, hsnap, hfail, openAtSig>>
runVars == <<variant, saveOutputs, proc, exitCode, finalPend>>

execVars == <<xpc, xconf, session, taskResult, result, saveAt, xlog>>
genVars == <<gpc, script, attempt, calls, lastError, rawResponse, genError, delays>>
\* the variables of the functions that are also modelled alone
diffVars == <<config, repo, dpc, dlog>>
parseVars == <<completion, maxCases, testCases, testFilePaths, ppc>>
mdVars == <<mdCase, markdown, reparsed, mpc>>
watchVars == <<stream, taken, wend>>
truncVars == <<rawDiff, sizeOption, gitDiff>>
lateVars == <<watchVars, truncVars>>
pipelineVars == <<diffVars, parseVars, mdVars, lateVars>>

auxVars == <<configFailOnError, execVars, genVars, pipelineVars>>

vars == <<schedVars, testVars, remoteVars, registryVars, sigVars, runVars, auxVars>>

----------------------------------------------------------------------------
(* Bounds of the model *)

MaxItems == 3
MaxK == 3
MaxTests == 2
MaxRunK == 2
MaxSignals == 1

----------------------------------------------------------------------------
(* Values *)

Undefined == "undefined"
Empty == [hole |-> TRUE]
ItemVals == {"a", "b", Undefined}
FnOutcomes == {"x", "y"}

N == Cardinality(DOMAIN items)
Indices == 0 .. (N - 1)

InFlight == {idx \in Indices : call[idx] = "running"}

----------------------------------------------------------------------------
(* runWithConcurrency *)

\* the limit test with the comparison weakened by one
RaceNeededOffByOne(len) == len > maxConcurrency
\* `if (executing.length >= maxConcurrency)`
RaceNeeded(len) == len >= maxConcurrency

\* every call writing the first slot
ResultSlotFirst(idx) == 0
\* a slot chosen by completion order instead of the item's index
ResultSlotByCompletion(idx) ==
    Cardinality({j \in Indices : call[j] \in {"fulfilled", "rejected"}})
\* `results[currentIndex] = await fn(item, currentIndex)`
ResultSlot(idx) == idx

\* a rejection swallowed by the wrapper: the promise is removed and the loop goes on
AfterRejectionSwallowed(idx) ==
    /\ executing' = executing \ {idx}
    /\ results' = [results EXCEPT ![idx] = [rejected |-> TRUE]]
    /\ writes' = [writes EXCEPT ![idx] = @ + 1]
    /\ error' = error
    /\ pc' = CASE pc = "race" -> "loop"
               [] pc = "all" /\ executing' = {} -> "done"
               [] OTHER -> pc
\* a rejection that settles nothing: the loop keeps waiting
AfterRejectionIgnored(idx) ==
    /\ UNCHANGED <<executing, results, writes>>
    /\ pc' = pc
    /\ error' = error
\* fn's promise rejects: the async wrapper rejects, `.then` has no rejection
\* handler, so the promise stays in `executing`; Promise.race / Promise.all
\* reject and the await rethrows out of runWithConcurrency
AfterRejection(idx) ==
    /\ UNCHANGED <<executing, results, writes>>
    /\ pc' = IF pc \in {"race", "all"} THEN "thrown" ELSE pc
    /\ error' = IF pc \in {"race", "all"} THEN "rejected" ELSE error

\* one iteration of the for loop, up to its await (or to the next iteration)
LoopStart(idx) ==
    /\ pc = "loop"
    /\ i = idx
    /\ idx < N
    /\ items[idx] # Undefined
    /\ call' = [call EXCEPT ![idx] = "running"]
    /\ executing' = executing \cup {idx}
    /\ i' = i + 1
    /\ pc' = IF RaceNeeded(Cardinality(executing')) THEN "race" ELSE "loop"
    /\ UNCHANGED <<items, maxConcurrency, results, returned, error, writes, outOfOrder>>

\* `if (item === undefined) throw new Error(...)`
LoopUndefined ==
    /\ pc = "loop"
    /\ i < N
    /\ items[i] = Undefined
    /\ pc' = "thrown"
    /\ error' = "undefined-item"
    /\ UNCHANGED <<items, maxConcurrency, i, executing, results, call, returned, writes,
                   outOfOrder>>

\* the loop ends: `await Promise.all(executing)`, then `return results`
LoopExit ==
    /\ pc = "loop"
    /\ i >= N
    /\ pc' = IF executing = {} THEN "done" ELSE "all"
    /\ UNCHANGED <<items, maxConcurrency, i, executing, results, call, returned, error,
                   writes, outOfOrder>>

\* fn's promise fulfils with v: the wrapper stores it, `.then` removes the
\* promise from `executing`, and a pending race (or all) resumes the caller
FnFulfil(idx, v) ==
    /\ pc # "loop"
    /\ call[idx] = "running"
    /\ call' = [call EXCEPT ![idx] = "fulfilled"]
    /\ returned' = [returned EXCEPT ![idx] = v]
    /\ results' = [j \in DOMAIN results \cup {ResultSlot(idx)} |->
                     IF j = ResultSlot(idx) THEN v ELSE results[j]]
    /\ writes' = [j \in DOMAIN writes \cup {ResultSlot(idx)} |->
                     IF j = ResultSlot(idx)
                     THEN (IF j \in DOMAIN writes THEN writes[j] ELSE 0) + 1
                     ELSE writes[j]]
    /\ executing' = executing \ {idx}
    /\ pc' = CASE pc = "race" -> "loop"
               [] pc = "all" /\ executing' = {} -> "done"
               [] OTHER -> pc
    /\ outOfOrder' = (outOfOrder \/ \E j \in 0 .. (idx - 1) : call[j] = "running")
    /\ UNCHANGED <<items, maxConcurrency, i, error>>

FnReject(idx) ==
    /\ pc # "loop"
    /\ call[idx] = "running"
    /\ call' = [call EXCEPT ![idx] = "rejected"]
    /\ AfterRejection(idx)
    /\ outOfOrder' = (outOfOrder \/ \E j \in 0 .. (idx - 1) : call[j] = "running")
    /\ UNCHANGED <<items, maxConcurrency, i, returned>>

----------------------------------------------------------------------------
(* Values of the runner *)

Variants == {"dedicated", "pool", "fresh"}

\* tokens of a task's final output; a tag token holds a '<', a text token does not
OpenTags == {"<status>", "<STATUS>", "<Status>"}
CloseTags == {"</status>", "</STATUS>", "</Status>"}
TagTokens == OpenTags \cup CloseTags

\* String.prototype.trim on the tokens the model uses
Trim(tok) ==
    CASE tok = " COMPLETED " -> "COMPLETED"
      [] OTHER -> tok

\* a comparison that keeps the case of the letters
LowerIdentity(tok) == tok
\* String.prototype.toLowerCase on the tokens the model uses
Lower(tok) ==
    CASE tok = "COMPLETED" -> "completed"
      [] tok = " COMPLETED " -> " completed "
      [] tok = "<Status>" -> "<status>"
      [] tok = "</Status>" -> "</status>"
      [] tok = "Failed" -> "failed"
      [] tok = "Not-Finished" -> "not-finished"
      [] tok = "<STATUS>" -> "<status>"
      [] tok = "</STATUS>" -> "</status>"
      [] tok = "Status: FAIL" -> "status: fail"
      [] OTHER -> tok

StatusValues == {"completed", "failed", "not-finished"}
Null == "null"

\* the places where /<status>\s*([^<]+?)\s*<\/status>/i matches: an opening tag,
\* one or more tokens without '<', a closing tag
TagMatchAt(output, p) ==
    /\ output[p] \in OpenTags
    /\ \E q \in (p + 2) .. Len(output) :
          /\ output[q] \in CloseTags
          /\ \A r \in (p + 1) .. (q - 1) : output[r] \notin TagTokens

\* a scan that takes any valid tag of the output, not the first match
ParseStatusTagAnyMatch(output) ==
    IF \E p \in 1 .. Len(output) :
          TagMatchAt(output, p) /\ output[p + 2] \in CloseTags
                                /\ Lower(Trim(output[p + 1])) \in StatusValues
    THEN Lower(Trim(output[(CHOOSE p \in 1 .. Len(output) :
              TagMatchAt(output, p) /\ output[p + 2] \in CloseTags
                                    /\ Lower(Trim(output[p + 1])) \in StatusValues) + 1]))
    ELSE Null
\* parseStatusTag: String.prototype.match takes the leftmost match only; its
\* group is valid when, trimmed and lower-cased, it is one of the three values
ParseStatusTag(output) ==
    IF output = <<>> \/ ~(\E p \in 1 .. Len(output) : TagMatchAt(output, p))
    THEN Null
    ELSE LET p == CHOOSE x \in 1 .. Len(output) :
                     /\ TagMatchAt(output, x)
                     /\ \A y \in 1 .. (x - 1) : ~TagMatchAt(output, y)
         IN IF output[p + 2] \in CloseTags /\ Lower(Trim(output[p + 1])) \in StatusValues
            THEN Lower(Trim(output[p + 1]))
            ELSE Null

\* the final outputs the remote agent gives in the runner's model
RunOutputs ==
    { <<"Done.", "<status>", "completed", "</status>">>,
      <<"<status>", "failed", "</status>", "Done.">>,
      <<"<STATUS>", "Not-Finished", "</STATUS>">>,
      <<"Done.">>,
      <<"All steps passed">>,
      <<"Status: FAIL">>,
      <<>> }

\* seconds: testCase.timeout and the elapsed durations the model draws
ConfigTimeout == 300
Elapsed == {299, 300, 305}

\* taskResult.outputFiles: absent or empty, well-formed, or holding a null entry
FileShapes == {"none", "some", "bad"}

\* testCase.expectedOutput: absent, a phrase of at most 5 characters, a longer one
ExpectedShapes == {"none", "short", "All steps passed"}

Updates == [status : {"finished", "stopped"}, output : RunOutputs,
            elapsed : Elapsed, files : FileShapes]

Res(status, err) == [status |-> status, error |-> err]
Pending == Res("pending", "")

Sessions == 1 .. created
NoStops == [test |-> 0, handler |-> 0, final |-> 0]
TotalStops(s) == stopCalls[s].test + stopCalls[s].handler + stopCalls[s].final

----------------------------------------------------------------------------
(* executeTest: the resolution of the final status *)

\* test-executor.ts (the first executor): a terminal update is a pass
ResolveFirst(upd) == Res("passed", "")

\* the executor of the pooled runner: failure indicators, then expectedOutput
HasFailureIndicator(output) ==
    \E p \in 1 .. Len(output) : Lower(output[p]) = "status: fail"
OutputIncludes(output, phrase) ==
    \E p \in 1 .. Len(output) : Lower(output[p]) = Lower(phrase)
IsValid(output, expected) ==
    \/ OutputIncludes(output, expected)
    \/ expected = "short"      \* no phrase longer than 5 characters: every() of none
ResolvePooled(upd, expected) ==
    IF upd.status = "finished"
    THEN IF HasFailureIndicator(upd.output)
         THEN Res("failed", "Test output indicates failure")
         ELSE IF expected # "none" /\ ~IsValid(upd.output, expected)
              THEN Res("failed", "Test output does not match expected output")
              ELSE Res("passed", "")
    ELSE IF upd.elapsed >= ConfigTimeout
         THEN Res("timeout", "Test exceeded timeout")
         ELSE Res("failed", "Task was stopped before completion")

\* the status tag read whatever the terminal status is
ResolveFreshTagFirst(upd) ==
    LET statusTag == ParseStatusTag(upd.output)
    IN CASE statusTag = "completed" -> Res("passed", "")
         [] statusTag = "failed" ->
               Res("failed", "Browser Use reported task failure (status tag: failed)")
         [] statusTag = "not-finished" ->
               Res("not-finished",
                   "Browser Use could not complete the task (status tag: not-finished)")
         [] upd.status = "finished" -> Res("passed", "")
         [] upd.elapsed >= ConfigTimeout -> Res("timeout", "Test exceeded timeout")
         [] OTHER -> Res("failed", "Task was stopped before completion")

\* the stopped branch with the comparison `>` in place of `>=`
ResolveFreshStrict(upd) ==
    IF upd.status = "finished"
    THEN LET statusTag == ParseStatusTag(upd.output)
         IN CASE statusTag = "completed" -> Res("passed", "")
              [] statusTag = "failed" ->
                    Res("failed", "Browser Use reported task failure (status tag: failed)")
              [] statusTag = "not-finished" ->
                    Res("not-finished",
                        "Browser Use could not complete the task (status tag: not-finished)")
              [] OTHER -> Res("passed", "")
    ELSE IF upd.elapsed > ConfigTimeout
         THEN Res("timeout", "Test exceeded timeout")
         ELSE Res("failed", "Task was stopped before completion")

\* the executor that owns its session: the status tag decides
ResolveFresh(upd) ==
    IF upd.status = "finished"
    THEN LET statusTag == ParseStatusTag(upd.output)
         IN CASE statusTag = "completed" -> Res("passed", "")
              [] statusTag = "failed" ->
                    Res("failed", "Browser Use reported task failure (status tag: failed)")
              [] statusTag = "not-finished" ->
                    Res("not-finished",
                        "Browser Use could not complete the task (status tag: not-finished)")
              [] OTHER -> Res("passed", "")
    ELSE IF upd.elapsed >= ConfigTimeout
         THEN Res("timeout", "Test exceeded timeout")
         ELSE Res("failed", "Task was stopped before completion")

Resolve(upd, expected) ==
    CASE variant = "dedicated" -> ResolveFirst(upd)
      [] variant = "pool" -> ResolvePooled(upd, expected)
      [] OTHER -> ResolveFresh(upd)

----------------------------------------------------------------------------
(* The per-item function of runAllTests, with executeTest inlined *)

Alive == proc # "exited"
\* no promise settles and no signal is handled while the scheduler's loop runs
Quiet == Alive /\ pc # "loop"

OwnsSession == variant \in {"dedicated", "fresh"}

\* a session that is created but never entered in the registry
RegisterSessionDropped(s) == activeSessions
\* `this.activeSessions.add(session.id)`; in the fresh executor the
\* onSessionCreated callback
RegisterSession(s) == activeSessions \cup {s}

\* the registry entry is kept whatever the stop call did
UnregisterSessionNever(s, ok) == activeSessions
\* after the per-test stop call: the dedicated runner deletes the id in both
\* branches; the fresh executor calls onSessionClosed only when the call succeeded
UnregisterSession(s, ok) ==
    IF variant = "dedicated" \/ ok THEN activeSessions \ {s} ELSE activeSessions

\* the sessions the program holds open: created, and the stop call of the test
\* that owns it not yet settled; a pooled session is open while it is in the pool
OpenSessions ==
    IF OwnsSession
    THEN {s \in Sessions : \E idx \in Indices :
             tsess[idx] = s /\ tpc[idx] \in {"task", "watch", "save", "stop"}}
    ELSE {sessionPool[k] : k \in 1 .. Len(sessionPool)}

\* the pool entry a test index is given
PoolIndex(idx) == idx % Len(sessionPool)

\* `if (session)` of the finally block, with the test skipped
NeedsStopNever(s) == FALSE
\* `if (session) { ... updateSession(session.id, { action: "stop" }) }`
NeedsStop(s) == s # 0

\* the try/catch of executeTest is left with result res: the finally block (of
\* executeTest, or of the dedicated runner's function) issues the stop call; the
\* pooled runner's function returns at once
Finish(idx, res) ==
    /\ tlast' = [tlast EXCEPT ![idx] = "none"]
    /\ UNCHANGED <<tsess, created, tasksIn, registryVars>>
    /\ IF OwnsSession /\ NeedsStop(tsess[idx])
       THEN /\ tpc' = [tpc EXCEPT ![idx] = "stop"]
            /\ tres' = [tres EXCEPT ![idx] = res]
            /\ stopCalls' = [stopCalls EXCEPT ![tsess[idx]].test = @ + 1]
            /\ UNCHANGED schedVars
       ELSE /\ tpc' = [tpc EXCEPT ![idx] = "done"]
            /\ tres' = [tres EXCEPT ![idx] = Pending]
            /\ UNCHANGED stopCalls
            /\ FnFulfil(idx, res)

\* the scheduler calls the function for item idx: it awaits parseTestCase
StartTest(idx) ==
    /\ Alive
    /\ LoopStart(idx)
    /\ tpc' = [tpc EXCEPT ![idx] = "parse"]
    /\ UNCHANGED <<tsess, tres, tlast, remoteVars, registryVars, sigVars, runVars>>

\* a parse failure that rejects the promise of the per-item function
ParseFailsRejects(idx) ==
    /\ Quiet
    /\ tpc[idx] = "parse"
    /\ tpc' = [tpc EXCEPT ![idx] = "done"]
    /\ UNCHANGED tres
    /\ FnReject(idx)
    /\ UNCHANGED <<tsess, tlast, remoteVars, registryVars, sigVars, runVars>>

\* parseTestCase gave null: an error result, no session
ParseFails(idx) ==
    /\ Quiet
    /\ tpc[idx] = "parse"
    /\ tpc' = [tpc EXCEPT ![idx] = "done"]
    /\ UNCHANGED tres
    /\ FnFulfil(idx, Res("error", "Failed to parse test case"))
    /\ UNCHANGED <<tsess, tlast, remoteVars, registryVars, sigVars, runVars>>

\* parseTestCase gave a test case; a session is asked for (createSession), or
\* taken from the pool and the task submitted in it (createTask)
ParseOk(idx) ==
    /\ Quiet
    /\ tpc[idx] = "parse"
    /\ IF OwnsSession
       THEN /\ tpc' = [tpc EXCEPT ![idx] = "create"]
            /\ UNCHANGED <<tsess, tasksIn>>
       ELSE /\ Len(sessionPool) > 0
            /\ tpc' = [tpc EXCEPT ![idx] = "task"]
            /\ tsess' = [tsess EXCEPT ![idx] = sessionPool[PoolIndex(idx) + 1]]
            /\ tasksIn' = [tasksIn EXCEPT ![sessionPool[PoolIndex(idx) + 1]] = @ + 1]
    /\ UNCHANGED <<tres, tlast, created, stopCalls, registryVars, sigVars, runVars,
                   schedVars>>

\* createSession resolves: the session is registered and the task submitted
CreateSessionOk(idx) ==
    /\ Quiet
    /\ tpc[idx] = "create"
    /\ created' = created + 1
    /\ stopCalls' = [s \in 1 .. created' |-> IF s = created' THEN NoStops ELSE stopCalls[s]]
    /\ tasksIn' = [s \in 1 .. created' |-> IF s = created' THEN 1 ELSE tasksIn[s]]
    /\ tsess' = [tsess EXCEPT ![idx] = created']
    /\ activeSessions' = RegisterSession(created')
    /\ tpc' = [tpc EXCEPT ![idx] = "task"]
    /\ UNCHANGED <<tres, tlast, sessionPool, sigVars, runVars, schedVars>>

\* createSession rejects: the dedicated runner's catch gives an error result,
\* the fresh executor's catch a failed one; session is null, so no stop call
CreateSessionFails(idx) ==
    /\ Quiet
    /\ tpc[idx] = "create"
    /\ Finish(idx, Res(IF variant = "dedicated" THEN "error" ELSE "failed",
                       "createSession failed"))
    /\ UNCHANGED <<sigVars, runVars>>

CreateTaskOk(idx) ==
    /\ Quiet
    /\ tpc[idx] = "task"
    /\ tpc' = [tpc EXCEPT ![idx] = "watch"]
    /\ UNCHANGED <<tsess, tres, tlast, remoteVars, registryVars, sigVars, runVars,
                   schedVars>>

\* createTask rejects: executeTest's catch gives a failed result
CreateTaskFails(idx) ==
    /\ Quiet
    /\ tpc[idx] = "task"
    /\ Finish(idx, Res("failed", "createTask failed"))
    /\ UNCHANGED <<sigVars, runVars>>

\* an update with a status that is not terminal: logged when it differs
WatchStatus(idx, status) ==
    /\ Quiet
    /\ tpc[idx] = "watch"
    /\ tlast[idx] # status
    /\ tlast' = [tlast EXCEPT ![idx] = status]
    /\ UNCHANGED <<tpc, tsess, tres, remoteVars, registryVars, sigVars, runVars,
                   schedVars>>

\* the stream ends with no terminal status: `throw new Error("Task did not
\* complete successfully")`, caught
WatchEnds(idx) ==
    /\ Quiet
    /\ tpc[idx] = "watch"
    /\ Finish(idx, Res("failed", "Task did not complete successfully"))
    /\ UNCHANGED <<sigVars, runVars>>

\* "Handle output files": the first executor handles them whatever the status
HandlesFiles(res) == variant = "dedicated" \/ res.status = "passed"

\* the first `finished` or `stopped` update: the status is resolved, and the
\* output files of a passed test are listed (a null entry throws, caught) and,
\* with config.saveOutputs, saved
WatchTerminal(idx, upd, expected) ==
    /\ Quiet
    /\ tpc[idx] = "watch"
    /\ LET res == Resolve(upd, expected)
       IN IF HandlesFiles(res) /\ upd.files = "bad"
          THEN Finish(idx, Res("failed", "Cannot read properties of null"))
          ELSE IF HandlesFiles(res) /\ upd.files = "some" /\ saveOutputs
               THEN /\ tpc' = [tpc EXCEPT ![idx] = "save"]
                    /\ tres' = [tres EXCEPT ![idx] = res]
                    /\ tlast' = [tlast EXCEPT ![idx] = "none"]
                    /\ UNCHANGED <<tsess, remoteVars, registryVars, schedVars>>
               ELSE Finish(idx, res)
    /\ UNCHANGED <<sigVars, runVars>>

\* saveOutputFiles settles; it catches every failure itself
SaveDone(idx) ==
    /\ Quiet
    /\ tpc[idx] = "save"
    /\ Finish(idx, tres[idx])
    /\ UNCHANGED <<sigVars, runVars>>

\* the per-test stop call settles; the function returns the result
StopDone(idx, ok) ==
    /\ Quiet
    /\ tpc[idx] = "stop"
    /\ tpc' = [tpc EXCEPT ![idx] = "done"]
    /\ activeSessions' = UnregisterSession(tsess[idx], ok)
    /\ FnFulfil(idx, tres[idx])
    /\ tres' = [tres EXCEPT ![idx] = Pending]
    /\ UNCHANGED <<tsess, tlast, created, stopCalls, tasksIn, sessionPool, sigVars,
                   runVars>>

----------------------------------------------------------------------------
(* run(), the session registry, the shutdown handler *)

\* the registry stopAllActiveSessions walks: the set of ids, or the pool
Registry ==
    IF variant = "pool" THEN {sessionPool[k] : k \in 1 .. Len(sessionPool)}
    ELSE activeSessions

\* only the first registered session is stopped
StopTargetsFirstOnly ==
    IF Registry = {} THEN {} ELSE {CHOOSE s \in Registry : \A r \in Registry : s <= r}
\* `Array.from(this.activeSessions).map(async (sessionId) => ...)`: one stop
\* call per registered session, all issued before the first await
StopTargets == Registry

\* generateReport and getExitCode
CountStatus(res, status) ==
    Cardinality({idx \in DOMAIN res : res[idx] # Empty /\ res[idx].status = status})
GetExitCode(res, failOnError) ==
    IF CountStatus(res, "error") > 0 THEN 2
    ELSE IF CountStatus(res, "failed") > 0 /\ failOnError THEN 1
    ELSE 0

IssueStops(who, targets) ==
    stopCalls' = [s \in Sessions |->
                    IF s \in targets THEN [stopCalls[s] EXCEPT ![who] = @ + 1]
                    ELSE stopCalls[s]]

ClearRegistry ==
    /\ activeSessions' = {}
    /\ sessionPool' = <<>>

\* validateSetup fails: run() returns 2 before its try block
ValidateFails ==
    /\ proc = "start"
    /\ proc' = "exited"
    /\ exitCode' = 2
    /\ UNCHANGED <<variant, saveOutputs, finalPend, schedVars, testVars, remoteVars,
                   registryVars, sigVars>>
    /\ UNCHANGED auxVars

\* validateSetup passes and findTestFiles returns: with no file runAllTests
\* returns; the pooled runner creates its pool; the others call runWithConcurrency
RunStart ==
    /\ proc = "start"
    /\ IF N = 0
       THEN /\ proc' = "report"
            /\ pc' = pc
       ELSE IF variant = "pool"
            THEN /\ proc' = "pool"
                 /\ pc' = pc
            ELSE /\ proc' = "tests"
                 /\ pc' = "loop"
    /\ UNCHANGED <<items, maxConcurrency, i, executing, results, call, returned, error,
                   writes, outOfOrder>>
    /\ UNCHANGED <<variant, saveOutputs, exitCode, finalPend, testVars, remoteVars,
                   registryVars, sigVars>>
    /\ UNCHANGED auxVars

\* createSessionPool: one createSession resolves and is pushed; after the last
\* one runWithConcurrency is called
PoolCreateOk ==
    /\ proc = "pool"
    /\ created' = created + 1
    /\ stopCalls' = [s \in 1 .. created' |-> IF s = created' THEN NoStops ELSE stopCalls[s]]
    /\ tasksIn' = [s \in 1 .. created' |-> IF s = created' THEN 0 ELSE tasksIn[s]]
    /\ sessionPool' = Append(sessionPool, created')
    /\ UNCHANGED activeSessions
    /\ IF Len(sessionPool') = maxConcurrency
       THEN proc' = "tests" /\ pc' = "loop"
       ELSE proc' = proc /\ pc' = pc
    /\ UNCHANGED <<items, maxConcurrency, i, executing, results, call, returned, error,
                   writes, outOfOrder>>
    /\ UNCHANGED <<variant, saveOutputs, exitCode, finalPend, testVars, sigVars>>
    /\ UNCHANGED auxVars

\* the shared end of run(): its finally block calls stopAllActiveSessions,
\* which returns at once on an empty registry; then main() exits with the code
RunFinally(code) ==
    /\ finalPend' = StopTargets
    /\ IssueStops("final", StopTargets)
    /\ exitCode' = code
    /\ proc' = IF StopTargets = {} THEN "exited" ELSE "final"
    /\ UNCHANGED <<variant, saveOutputs, created, tasksIn, registryVars, testVars,
                   sigVars, schedVars>>

\* createSessionPool: createSession rejects, "Failed to create session pool" is
\* thrown, run() catches it and returns 2
PoolCreateFails ==
    /\ proc = "pool"
    /\ RunFinally(2)
    /\ UNCHANGED auxVars

\* runWithConcurrency returned (or threw): the report is made and saveResults awaited
RunReport ==
    /\ proc = "tests"
    /\ pc \in {"done", "thrown"}
    /\ proc' = "report"
    /\ UNCHANGED <<variant, saveOutputs, exitCode, finalPend, schedVars, testVars,
                   remoteVars, registryVars, sigVars>>
    /\ UNCHANGED auxVars

\* saveResults settled: getExitCode, then the finally block
RunReturn(failOnError) ==
    /\ proc = "report"
    /\ RunFinally(IF pc = "thrown" THEN 2 ELSE GetExitCode(results, failOnError))

\* one stop call of run()'s finally settles; after the last one the registry
\* is cleared and the process exits with run()'s code
FinalStopDone(s, ok) ==
    /\ proc = "final"
    /\ s \in finalPend
    /\ finalPend' = finalPend \ {s}
    /\ IF finalPend' = {}
       THEN ClearRegistry /\ proc' = "exited"
       ELSE UNCHANGED registryVars /\ proc' = proc
    /\ UNCHANGED <<variant, saveOutputs, exitCode, created, stopCalls, tasksIn, testVars,
                   sigVars, schedVars>>

\* a failed stop call of the handler is issued again
HandlerRetryTargets(h, s, ok) == IF ok THEN {} ELSE {s}
\* the handler's catch: `console.warn(...)`, nothing else
HandlerRetry(h, s, ok) == {}

\* SIGINT or SIGTERM: shutdownHandler calls stopAllActiveSessions, which issues
\* one stop call per registered session; on an empty registry it returns and
\* process.exit(130) follows
Signal ==
    /\ Quiet
    /\ sigs < MaxSignals
    /\ sigs' = sigs + 1
    /\ openAtSig' = openAtSig \cup OpenSessions
    /\ hpend' = [h \in 1 .. sigs' |-> IF h = sigs' THEN StopTargets ELSE hpend[h]]
    /\ hsnap' = [h \in 1 .. sigs' |-> IF h = sigs' THEN StopTargets ELSE hsnap[h]]
    /\ hfail' = [h \in 1 .. sigs' |-> IF h = sigs' THEN {} ELSE hfail[h]]
    /\ IssueStops("handler", StopTargets)
    /\ IF StopTargets = {}
       THEN proc' = "exited" /\ exitCode' = 130
       ELSE proc' = proc /\ exitCode' = exitCode
    /\ UNCHANGED <<variant, saveOutputs, finalPend, created, tasksIn, registryVars,
                   testVars, schedVars>>
    /\ UNCHANGED auxVars

\* one stop call of a handler run settles (a failure is only logged); after its
\* last one the registry is cleared and process.exit(130) is called
HandlerStopDone(h, s, ok) ==
    /\ Quiet
    /\ h \in 1 .. sigs
    /\ s \in hpend[h]
    /\ hfail' = [hfail EXCEPT ![h] = IF ok THEN @ ELSE @ \cup {s}]
    /\ hpend' = [hpend EXCEPT ![h] = (@ \ {s}) \cup HandlerRetry(h, s, ok)]
    /\ IssueStops("handler", HandlerRetry(h, s, ok))
    /\ IF hpend'[h] = {}
       THEN ClearRegistry /\ proc' = "exited" /\ exitCode' = 130
       ELSE UNCHANGED registryVars /\ proc' = proc /\ exitCode' = exitCode
    /\ UNCHANGED <<variant, saveOutputs, finalPend, created, tasksIn, sigs, hsnap,
                   openAtSig, testVars, schedVars>>

\* the variables of executeTest alone, where it is not run alone
ExecUnused ==
    /\ xpc = "none"
    /\ xconf = Null
    /\ session = 0
    /\ taskResult = Empty
    /\ result = Empty
    /\ saveAt = 0
    /\ xlog = Null

\* the variables of the test generation, where it does not run
GenUnused ==
    /\ gpc = "none"
    /\ script = <<>>
    /\ attempt = 0
    /\ calls = 0
    /\ lastError = Null
    /\ rawResponse = Empty
    /\ genError = "none"
    /\ delays = <<>>

\* the variables of run() in diff mode, where it does not run
DiffUnused ==
    /\ config = Empty
    /\ repo = Empty
    /\ dpc = "none"
    /\ dlog = Empty

\* the variables of the parse of a response, where it does not run alone
ParseUnused ==
    /\ completion = Empty
    /\ maxCases = 0
    /\ testCases = <<>>
    /\ testFilePaths = <<>>
    /\ ppc = "none"

\* the variables of the markdown round trip, where it does not run
MdUnused ==
    /\ mdCase = Empty
    /\ markdown = Empty
    /\ reparsed = Empty
    /\ mpc = "none"

\* the stream of status updates, where the model draws the updates one by one
WatchUnused ==
    /\ stream = <<>>
    /\ taken = 0
    /\ wend = "none"

\* the variables of getGitDiff's truncation, where it is not run alone
TruncUnused ==
    /\ rawDiff = <<>>
    /\ sizeOption = Empty
    /\ gitDiff = Empty

LateUnused ==
    /\ WatchUnused
    /\ TruncUnused

PipelineUnused ==
    /\ DiffUnused
    /\ ParseUnused
    /\ MdUnused
    /\ LateUnused

AuxUnused ==
    /\ configFailOnError = TRUE
    /\ ExecUnused
    /\ GenUnused
    /\ PipelineUnused

\* the runner's variables when only the scheduler runs
RunnerUnused ==
    /\ variant = "none"
    /\ saveOutputs = FALSE
    /\ proc = "none"
    /\ exitCode = -1
    /\ tpc = <<>>
    /\ tsess = <<>>
    /\ tres = <<>>
    /\ tlast = <<>>
    /\ created = 0
    /\ stopCalls = <<>>
    /\ tasksIn = <<>>
    /\ activeSessions = {}
    /\ sessionPool = <<>>
    /\ sigs = 0
    /\ hpend = <<>>
    /\ hsnap = <<>>
    /\ hfail = <<>>
    /\ finalPend = {}
    /\ openAtSig = {}

SchedInit ==
    /\ \E n \in 0 .. MaxItems : items \in [0 .. (n - 1) -> ItemVals]
    /\ maxConcurrency \in 1 .. MaxK
    /\ pc = "loop"
    /\ i = 0
    /\ executing = {}
    /\ results = [j \in DOMAIN items |-> Empty]
    /\ call = [j \in DOMAIN items |-> "unstarted"]
    /\ returned = [j \in DOMAIN items |-> Empty]
    /\ error = "none"
    /\ writes = [j \in DOMAIN items |-> 0]
    /\ outOfOrder = FALSE
    /\ RunnerUnused
    /\ AuxUnused

----------------------------------------------------------------------------
(* The scheduler over an arbitrary per-item function *)

FnValue(idx, o) == [item |-> items[idx], index |-> idx, out |-> o]

otherVars == <<testVars, remoteVars, registryVars, sigVars, runVars, auxVars>>

SchedStart == \E idx \in Indices : LoopStart(idx) /\ UNCHANGED otherVars
SchedUndefined == LoopUndefined /\ UNCHANGED otherVars
SchedExit == LoopExit /\ UNCHANGED otherVars
SchedFulfil ==
    \E idx \in Indices, o \in FnOutcomes :
        FnFulfil(idx, FnValue(idx, o)) /\ UNCHANGED otherVars
SchedReject == \E idx \in Indices : FnReject(idx) /\ UNCHANGED otherVars

SchedNext ==
    \/ SchedStart
    \/ SchedUndefined
    \/ SchedExit
    \/ SchedFulfil
    \/ SchedReject

SpecSched == SchedInit /\ [][SchedNext]_vars

\* the promise of the call made for item idx settles
SchedSettle(idx) ==
    /\ idx \in Indices
    /\ \/ \E o \in FnOutcomes : FnFulfil(idx, FnValue(idx, o))
       \/ FnReject(idx)
    /\ UNCHANGED otherVars

\* the loop's own code runs when it can, and every call that was made settles
SchedFairness ==
    /\ WF_vars(SchedStart)
    /\ WF_vars(SchedUndefined)
    /\ WF_vars(SchedExit)
    /\ \A idx \in 0 .. (MaxItems - 1) : WF_vars(SchedSettle(idx))

SpecSchedLive == SchedInit /\ [][SchedNext]_vars /\ SchedFairness

----------------------------------------------------------------------------
(* The runner: run() over the test files, with signals *)

WatchStatuses == {"started"}

\* findTestFiles: the sorted paths of the markdown files
TestFile(j) ==
    CASE j = 0 -> "tests/a.md"
      [] j = 1 -> "tests/b.md"
      [] j = 2 -> "tests/c.md"
      [] j = 3 -> "tests/d.md"
      [] OTHER -> "tests/z.md"

RunInit(v) ==
    /\ variant = v
    /\ saveOutputs \in BOOLEAN
    /\ \E n \in 0 .. MaxTests : items = [j \in 0 .. (n - 1) |-> TestFile(j)]
    /\ maxConcurrency \in 1 .. MaxRunK
    /\ pc = "idle"
    /\ i = 0
    /\ executing = {}
    /\ results = [j \in DOMAIN items |-> Empty]
    /\ call = [j \in DOMAIN items |-> "unstarted"]
    /\ returned = [j \in DOMAIN items |-> Empty]
    /\ error = "none"
    /\ writes = [j \in DOMAIN items |-> 0]
    /\ outOfOrder = FALSE
    /\ proc = "start"
    /\ exitCode = -1
    /\ tpc = [j \in DOMAIN items |-> "unstarted"]
    /\ tsess = [j \in DOMAIN items |-> 0]
    /\ tres = [j \in DOMAIN items |-> Pending]
    /\ tlast = [j \in DOMAIN items |-> "none"]
    /\ created = 0
    /\ stopCalls = <<>>
    /\ tasksIn = <<>>
    /\ activeSessions = {}
    /\ sessionPool = <<>>
    /\ sigs = 0
    /\ hpend = <<>>
    /\ hsnap = <<>>
    /\ hfail = <<>>
    /\ finalPend = {}
    /\ openAtSig = {}
    /\ AuxUnused

RunLoopExit == Alive /\ LoopExit /\ UNCHANGED otherVars

TestStart == \E idx \in Indices : StartTest(idx) /\ UNCHANGED auxVars
TestParseFails == \E idx \in Indices : ParseFails(idx) /\ UNCHANGED auxVars
TestParseOk == \E idx \in Indices : ParseOk(idx) /\ UNCHANGED auxVars
TestCreateSessionOk == \E idx \in Indices : CreateSessionOk(idx) /\ UNCHANGED auxVars
TestCreateSessionFails == \E idx \in Indices : CreateSessionFails(idx) /\ UNCHANGED auxVars
TestCreateTaskOk == \E idx \in Indices : CreateTaskOk(idx) /\ UNCHANGED auxVars
TestCreateTaskFails == \E idx \in Indices : CreateTaskFails(idx) /\ UNCHANGED auxVars
TestWatchStatus ==
    \E idx \in Indices, st \in WatchStatuses : WatchStatus(idx, st) /\ UNCHANGED auxVars
TestWatchEnds == \E idx \in Indices : WatchEnds(idx) /\ UNCHANGED auxVars
\* only the pooled runner's executor reads testCase.expectedOutput
RunExpected == IF variant = "pool" THEN ExpectedShapes ELSE {"none"}
TestWatchTerminal ==
    \E idx \in Indices, upd \in Updates, expected \in RunExpected :
        WatchTerminal(idx, upd, expected) /\ UNCHANGED auxVars
TestSaveDone == \E idx \in Indices : SaveDone(idx) /\ UNCHANGED auxVars
TestStopDone == \E idx \in Indices, ok \in BOOLEAN : StopDone(idx, ok) /\ UNCHANGED auxVars
RunReturns == \E failOnError \in BOOLEAN : RunReturn(failOnError) /\ UNCHANGED auxVars
FinalStopSettles == \E s \in Sessions, ok \in BOOLEAN : FinalStopDone(s, ok) /\ UNCHANGED auxVars
HandlerStopSettles ==
    \E h \in 1 .. sigs, s \in Sessions, ok \in BOOLEAN :
        HandlerStopDone(h, s, ok) /\ UNCHANGED auxVars

\* the first runner: every test deletes its id from the registry after its
\* stop call, so run()'s finally finds the registry empty and awaits nothing
DedicatedNext ==
    \/ ValidateFails
    \/ RunStart
    \/ TestStart
    \/ RunLoopExit
    \/ TestParseFails
    \/ TestParseOk
    \/ TestCreateSessionOk
    \/ TestCreateSessionFails
    \/ TestCreateTaskOk
    \/ TestCreateTaskFails
    \/ TestWatchStatus
    \/ TestWatchEnds
    \/ TestWatchTerminal
    \/ TestSaveDone
    \/ TestStopDone
    \/ RunReport
    \/ RunReturns
    \/ Signal
    \/ HandlerStopSettles

\* the runner of the executor that owns its session: an id whose stop call
\* failed stays in the registry, and run()'s finally stops it again
FreshNext ==
    \/ DedicatedNext
    \/ FinalStopSettles

\* the runner with the session pool
PoolNext ==
    \/ ValidateFails
    \/ RunStart
    \/ PoolCreateOk
    \/ PoolCreateFails
    \/ TestStart
    \/ RunLoopExit
    \/ TestParseFails
    \/ TestParseOk
    \/ TestCreateTaskOk
    \/ TestCreateTaskFails
    \/ TestWatchStatus
    \/ TestWatchEnds
    \/ TestWatchTerminal
    \/ TestSaveDone
    \/ RunReport
    \/ RunReturns
    \/ FinalStopSettles
    \/ Signal
    \/ HandlerStopSettles

\* index.ts (first runner) with test-executor.ts
SpecDedicated == RunInit("dedicated") /\ [][DedicatedNext]_vars
\* the executor that creates and stops its own session, with its runner
SpecFresh == RunInit("fresh") /\ [][FreshNext]_vars
\* index.ts (second runner) with the executor that is handed a pooled session
SpecPool == RunInit("pool") /\ [][PoolNext]_vars

----------------------------------------------------------------------------
(* executeTest alone: the executor that creates its own session, with the    *)
(* steps of saveOutputFiles                                                  *)

MaxEvents == 2
MaxFiles == 2

\* the scheduler's and the runner's variables where neither runs
SchedUnused ==
    /\ items = <<>>
    /\ maxConcurrency = 1
    /\ pc = "idle"
    /\ i = 0
    /\ executing = {}
    /\ results = <<>>
    /\ call = <<>>
    /\ returned = <<>>
    /\ error = "none"
    /\ writes = <<>>
    /\ outOfOrder = FALSE

\* pieces of a final output: plain text, or a status tag with some value
Segments ==
    { <<"Done.">>,
      <<"<status>", "completed", "</status>">>,
      <<"<status>", "failed", "</status>">>,
      <<"<status>", "not-finished", "</status>">>,
      <<"<STATUS>", "Failed", "</STATUS>">>,
      <<"<Status>", " COMPLETED ", "</status>">>,
      <<"<status>", "Not-Finished", "</Status>">>,
      <<"<status>", "partial", "</status>">> }
\* taskResult.output: undefined or empty, or one or two pieces
ExecOutputs == {<<>>} \cup Segments \cup {a \o b : a \in Segments, b \in Segments}

\* taskResult.outputFiles of each shape: "bad" holds a null entry
FileCount(shape) == IF shape = "none" THEN 0 ELSE MaxFiles

ExecUpdates == [status : {"finished", "stopped"}, output : ExecOutputs,
                elapsed : Elapsed, files : FileShapes]

\* what happens to one file in saveOutputFiles
SaveOutcomes == {"saved", "url-failed", "download-failed", "write-failed"}

\* `let taskResult;` and the `output` field of a result that was never set
NoUpdate == [status |-> Undefined]
NoOutput == <<Undefined>>

NoLog == [stops |-> 0, warnings |-> 0, saved |-> 0, events |-> 0, lastStatus |-> Null,
          stopFailed |-> FALSE]

ExecResult(status, err, duration, output, nfiles) ==
    [status |-> status, error |-> err, duration |-> duration, output |-> output,
     outputFiles |-> nfiles]

ExecInit ==
    /\ SchedUnused
    /\ RunnerUnused
    /\ GenUnused
    /\ PipelineUnused
    /\ configFailOnError = TRUE
    /\ xpc = "create"
    /\ xconf \in [saveOutputs : BOOLEAN, timeout : {ConfigTimeout}]
    /\ session = 0
    /\ taskResult = NoUpdate
    /\ result = ExecResult("pending", Null, 0, NoOutput, 0)
    /\ saveAt = 0
    /\ xlog = NoLog

execFrame == <<schedVars, testVars, remoteVars, registryVars, sigVars, runVars,
               configFailOnError, genVars, pipelineVars>>

\* a catch block that records the message and leaves the status as it was
ExecCatchKeepsStatus(message, elapsed) ==
    /\ result' = [result EXCEPT !.error = message, !.duration = elapsed]
    /\ IF NeedsStop(session)
       THEN xpc' = "stop" /\ xlog' = [xlog EXCEPT !.stops = @ + 1]
       ELSE xpc' = "returned" /\ xlog' = xlog

\* the catch block, then the finally block: with a session the stop call is
\* issued and awaited, without one the function returns
ExecCatch(message, elapsed) ==
    /\ result' = [result EXCEPT !.status = "failed", !.error = message,
                                !.duration = elapsed]
    /\ IF NeedsStop(session)
       THEN xpc' = "stop" /\ xlog' = [xlog EXCEPT !.stops = @ + 1]
       ELSE xpc' = "returned" /\ xlog' = xlog

\* the try block ends normally: the finally block (session is set here)
ExecFinally ==
    /\ xpc' = "stop"
    /\ xlog' = [xlog EXCEPT !.stops = @ + 1]

ExecCreateSessionOk ==
    /\ xpc = "create"
    /\ session' = 1
    /\ xpc' = "task"
    /\ UNCHANGED <<xconf, taskResult, result, saveAt, xlog, execFrame>>

ExecCreateSessionFails ==
    /\ xpc = "create"
    /\ \E elapsed \in Elapsed : ExecCatch("createSession failed", elapsed)
    /\ UNCHANGED <<xconf, session, taskResult, saveAt, execFrame>>

ExecCreateTaskOk ==
    /\ xpc = "task"
    /\ xpc' = "watch"
    /\ UNCHANGED <<xconf, session, taskResult, result, saveAt, xlog, execFrame>>

ExecCreateTaskFails ==
    /\ xpc = "task"
    /\ \E elapsed \in Elapsed : ExecCatch("createTask failed", elapsed)
    /\ UNCHANGED <<xconf, session, taskResult, saveAt, execFrame>>

\* an update that does not end the loop: an event that is not a status, or a
\* status that is not terminal (logged, and kept in lastStatus)
ExecWatchEvent ==
    /\ xpc = "watch"
    /\ xlog.events < MaxEvents
    /\ \E ev \in {"log"} \cup WatchStatuses :
          xlog' = [xlog EXCEPT !.events = @ + 1,
                               !.lastStatus = IF ev \in WatchStatuses THEN ev ELSE @]
    /\ UNCHANGED <<xpc, xconf, session, taskResult, result, saveAt, execFrame>>

\* the stream ends with no terminal status, or its iterator throws
ExecWatchEnds ==
    /\ xpc = "watch"
    /\ \E elapsed \in Elapsed,
          message \in {"Task did not complete successfully", "watch failed"} :
          ExecCatch(message, elapsed)
    /\ UNCHANGED <<xconf, session, taskResult, saveAt, execFrame>>

\* after the loop with taskResult set: the resolution of the status, then the
\* output files
ExecTerminal(upd) ==
    LET res == ResolveFresh(upd)
        resolved == ExecResult(res.status,
                               IF res.error = "" THEN Null ELSE res.error,
                               upd.elapsed, upd.output, 0)
    IN /\ taskResult' = upd
       /\ IF res.status = "passed" /\ FileCount(upd.files) > 0
          THEN IF upd.files = "bad"
               THEN \E elapsed \in {upd.elapsed} :
                       /\ result' = [resolved EXCEPT
                                        !.status = "failed",
                                        !.error = "Cannot read properties of null"]
                       /\ ExecFinally
               ELSE /\ result' = [resolved EXCEPT !.outputFiles = FileCount(upd.files)]
                    /\ IF xconf.saveOutputs
                       THEN xpc' = "ensureDir" /\ xlog' = xlog
                       ELSE ExecFinally
          ELSE /\ result' = resolved
               /\ ExecFinally

\* the first finished or stopped status: resolution, then the output files
ExecWatchTerminal ==
    /\ xpc = "watch"
    /\ \E upd \in ExecUpdates : ExecTerminal(upd)
    /\ UNCHANGED <<xconf, session, saveAt, execFrame>>

\* saveOutputFiles: ensureDir; its failure is caught by the outer catch (a
\* warning) and the function returns
ExecEnsureDir ==
    /\ xpc = "ensureDir"
    /\ \E ok \in BOOLEAN :
          IF ok
          THEN xpc' = "saving" /\ xlog' = xlog
          ELSE /\ xpc' = "stop"
               /\ xlog' = [xlog EXCEPT !.warnings = @ + 1, !.stops = @ + 1]
    /\ UNCHANGED <<xconf, session, taskResult, result, saveAt, execFrame>>

\* a file that could not be saved fails the test
SaveFailureFails(res, outcome) ==
    IF outcome = "saved" THEN res
    ELSE [res EXCEPT !.status = "failed", !.error = "Failed to save output file"]
\* the catch inside the loop of saveOutputFiles: `console.warn(...)`, the
\* result is not touched
SaveFailureEffect(res, outcome) == res

\* saveOutputFiles: one file: the presigned URL, the download, the write; a
\* failure of any of them is caught inside the loop (a warning); after the
\* last file executeTest goes on to its finally block
ExecSaveFile ==
    /\ xpc = "saving"
    /\ saveAt < result.outputFiles
    /\ saveAt' = saveAt + 1
    /\ \E outcome \in SaveOutcomes :
          /\ xlog' = [xlog EXCEPT
                        !.saved = IF outcome = "saved" THEN @ + 1 ELSE @,
                        !.warnings = IF outcome = "saved" THEN @ ELSE @ + 1,
                        !.stops = IF saveAt' = result.outputFiles THEN @ + 1 ELSE @]
          /\ result' = SaveFailureEffect(result, outcome)
    /\ xpc' = IF saveAt' = result.outputFiles THEN "stop" ELSE xpc
    /\ UNCHANGED <<xconf, session, taskResult, execFrame>>

\* a finally block whose stop call is not wrapped in a try
StopFailureEscapes == FALSE
\* the try/catch around the stop call in the finally block
StopFailureCaught == TRUE

\* the stop call settles: a failure is caught (a warning); `return result`
ExecStopDone ==
    /\ xpc = "stop"
    /\ \E ok \in BOOLEAN :
          /\ xlog' = [xlog EXCEPT !.warnings = IF ok THEN @ ELSE @ + 1,
                                  !.stopFailed = ~ok]
          /\ xpc' = IF ok \/ StopFailureCaught THEN "returned" ELSE "threw"
    /\ UNCHANGED <<xconf, session, taskResult, result, saveAt, execFrame>>

ExecNext ==
    \/ ExecCreateSessionOk
    \/ ExecCreateSessionFails
    \/ ExecCreateTaskOk
    \/ ExecCreateTaskFails
    \/ ExecWatchEvent
    \/ ExecWatchEnds
    \/ ExecWatchTerminal
    \/ ExecEnsureDir
    \/ ExecSaveFile
    \/ ExecStopDone

SpecExec == ExecInit /\ [][ExecNext]_vars

----------------------------------------------------------------------------
(* getExitCode over generateReport, alone *)

MaxResults == 3

ResultStatuses == {"passed", "failed", "error", "timeout", "not-finished"}

\* a report that counts not-finished results among the failed ones
GenerateReportCountsNotFinished(res) ==
    [total |-> Cardinality(DOMAIN res),
     passed |-> CountStatus(res, "passed"),
     failed |-> CountStatus(res, "failed") + CountStatus(res, "not-finished"),
     errors |-> CountStatus(res, "error")]
\* generateReport: the summary it builds has these four counts (and the rate)
GenerateReport(res) ==
    [total |-> Cardinality(DOMAIN res),
     passed |-> CountStatus(res, "passed"),
     failed |-> CountStatus(res, "failed"),
     errors |-> CountStatus(res, "error")]

\* `summary.f > 0`: false for a field the summary does not have (undefined > 0)
FieldPositive(summary, f) == f \in DOMAIN summary /\ summary[f] > 0

\* getExitCode of the second runner
GetExitCodeOfReport(summary, failOnErr) ==
    IF FieldPositive(summary, "errors") THEN 2
    ELSE IF FieldPositive(summary, "failed") \/ FieldPositive(summary, "timeouts")
         THEN (IF failOnErr THEN 1 ELSE 0)
         ELSE 0

ExitInit ==
    /\ items = <<>>
    /\ maxConcurrency = 1
    /\ pc = "done"
    /\ i = 0
    /\ executing = {}
    /\ \E n \in 0 .. MaxResults :
          results \in [0 .. (n - 1) -> {Res(st, "") : st \in ResultStatuses}]
    /\ call = <<>>
    /\ returned = <<>>
    /\ error = "none"
    /\ writes = <<>>
    /\ outOfOrder = FALSE
    /\ variant = "pool"
    /\ saveOutputs = FALSE
    /\ proc = "report"
    /\ exitCode = -1
    /\ tpc = <<>>
    /\ tsess = <<>>
    /\ tres = <<>>
    /\ tlast = <<>>
    /\ created = 0
    /\ stopCalls = <<>>
    /\ tasksIn = <<>>
    /\ activeSessions = {}
    /\ sessionPool = <<>>
    /\ sigs = 0
    /\ hpend = <<>>
    /\ hsnap = <<>>
    /\ hfail = <<>>
    /\ finalPend = {}
    /\ openAtSig = {}
    /\ configFailOnError \in BOOLEAN
    /\ ExecUnused
    /\ GenUnused
    /\ PipelineUnused

\* `const report = generateReport(this.results); return this.getExitCode(report)`
ExitCodeStep ==
    /\ proc = "report"
    /\ proc' = "returned"
    /\ exitCode' = GetExitCodeOfReport(GenerateReport(results), configFailOnError)
    /\ UNCHANGED <<schedVars, testVars, remoteVars, registryVars, sigVars, variant,
                   saveOutputs, finalPend, auxVars>>

ExitNext ==
    \/ ExitCodeStep

SpecExit == ExitInit /\ [][ExitNext]_vars

----------------------------------------------------------------------------
(* generateTestCasesFromDiff: callLLMWithRetry, parseTestCasesFromXML *)

\* `maxRetries: number = 3`
MaxRetries == 3

\* what one call of openai.chat.completions.create gives: a thrown error, an
\* empty (or absent) content, text that is not a test plan, a test plan with
\* no usable test case, a test plan with test cases
Completions == {"throw", "empty", "malformed", "no-cases", "valid"}

NoResponse == [kind |-> Undefined, attempt |-> 0]

\* a backoff that starts at one second
BackoffDelayFromOne(att) == 2 ^ (att - 1) * 1000
\* `const delay = Math.pow(2, attempt) * 1000`
BackoffDelay(att) == 2 ^ att * 1000

\* a loop that allows one more attempt
LoopContinuesOnceMore(att) == att <= MaxRetries + 1
\* `attempt <= maxRetries`
LoopContinues(att) == att <= MaxRetries

\* `if (!content) throw new Error('Empty response from LLM')`, or the call threw
AttemptFails(kind) == kind \in {"throw", "empty"}

\* parseTestCasesFromXML throws, or returns a list (empty or not)
ParseThrows(kind) == kind = "malformed"
ParsedCases(kind) == IF kind = "valid" THEN 1 ELSE 0

GenInit ==
    /\ SchedUnused
    /\ RunnerUnused
    /\ ExecUnused
    /\ PipelineUnused
    /\ configFailOnError = TRUE
    /\ gpc = "call"
    /\ script \in [1 .. (MaxRetries + 2) -> Completions]
    /\ attempt = 1
    /\ calls = 1
    /\ lastError = Null
    /\ rawResponse = NoResponse
    /\ genError = "none"
    /\ delays = <<>>

genFrame == <<schedVars, testVars, remoteVars, registryVars, sigVars, runVars,
              configFailOnError, execVars, pipelineVars>>

\* the call of this attempt failed: lastError is set; with attempts left the
\* backoff is awaited, and the loop goes on if its condition allows; otherwise
\* lastError is thrown and generateTestCasesFromDiff rethrows it wrapped
GenAttemptFails ==
    /\ gpc = "call"
    /\ AttemptFails(script[calls])
    /\ lastError' = IF script[calls] = "empty" THEN "Empty response from LLM"
                    ELSE "call failed"
    /\ IF attempt < MaxRetries
       THEN /\ gpc' = "backoff"
            /\ delays' = Append(delays, BackoffDelay(attempt))
            /\ UNCHANGED <<attempt, calls, genError>>
       ELSE IF LoopContinues(attempt + 1)
            THEN /\ gpc' = "call"
                 /\ attempt' = attempt + 1
                 /\ calls' = calls + 1
                 /\ UNCHANGED <<genError, delays>>
            ELSE /\ gpc' = "threw"
                 /\ attempt' = attempt + 1
                 /\ genError' = "Failed to generate test cases"
                 /\ UNCHANGED <<calls, delays>>
    /\ UNCHANGED <<script, rawResponse, genFrame>>

\* the backoff timer fires: the next iteration makes the next call
GenBackoffDone ==
    /\ gpc = "backoff"
    /\ attempt' = attempt + 1
    /\ IF LoopContinues(attempt')
       THEN gpc' = "call" /\ calls' = calls + 1 /\ UNCHANGED genError
       ELSE gpc' = "threw" /\ genError' = "Failed to generate test cases"
                           /\ UNCHANGED calls
    /\ UNCHANGED <<script, lastError, rawResponse, delays, genFrame>>

\* a non-empty content: callLLMWithRetry returns it, parseTestCasesFromXML
\* reads it; a parse error or an empty list is thrown out of
\* generateTestCasesFromDiff, otherwise the test cases are saved
GenCompletion ==
    /\ gpc = "call"
    /\ ~AttemptFails(script[calls])
    /\ rawResponse' = [kind |-> script[calls], attempt |-> attempt]
    /\ IF ParseThrows(script[calls])
       THEN gpc' = "threw" /\ genError' = "Invalid XML response"
       ELSE IF ParsedCases(script[calls]) = 0
            THEN gpc' = "threw" /\ genError' = "No test cases generated from LLM response"
            ELSE gpc' = "save" /\ genError' = genError
    /\ UNCHANGED <<script, attempt, calls, lastError, delays, genFrame>>

\* saveTestCasesAsMarkdown settles: the result is returned, or its error thrown
GenSaveDone ==
    /\ gpc = "save"
    /\ \E ok \in BOOLEAN :
          IF ok THEN gpc' = "returned" /\ genError' = genError
          ELSE gpc' = "threw" /\ genError' = "save failed"
    /\ UNCHANGED <<script, attempt, calls, lastError, rawResponse, delays, genFrame>>

GenNext ==
    \/ GenAttemptFails
    \/ GenBackoffDone
    \/ GenCompletion
    \/ GenSaveDone

SpecGen == GenInit /\ [][GenNext]_vars

----------------------------------------------------------------------------
(* generateTestCasesFromDiff from the parse on: parseTestCasesFromXML, the   *)
(* empty-list check, saveTestCasesAsMarkdown                                  *)

MaxElements == 3
MaxCasesLimit == 2

\* the text of a <name> or <task> element as the XML parser hands it over
\* (parseTagValue and trimValues are on): no element gives undefined, blank
\* text gives "", the text 0 gives the number 0, other text gives a string
FieldValues == {"absent", "blank", "0", "text"}

\* `!tc.name`: undefined, "" and 0 are falsy
Falsy(v) == v \in {"absent", "blank", "0"}

Elements == [name : FieldValues, task : FieldValues]

\* the responses: text the parser rejects, XML without <testplan>, a test plan
\* with its <testcase> elements in document order
Responses ==
    {[kind |-> "invalid-xml", elements |-> <<>>], [kind |-> "no-testplan", elements |-> <<>>]}
    \cup {[kind |-> "testplan", elements |-> e] :
             e \in UNION {[1 .. n -> Elements] : n \in 0 .. MaxElements}}

\* an element is skipped when either field is missing, the other way round
KeepsElementEither(tc) == ~Falsy(tc.name) \/ ~Falsy(tc.task)
\* `if (!tc.name || !tc.task) { console.warn(...); continue; }`
KeepsElement(tc) == ~Falsy(tc.name) /\ ~Falsy(tc.task)

RECURSIVE KeptFrom(_, _)
\* the loop `for (const tc of testcaseArray)`: the positions pushed, from p on
KeptFrom(elements, p) ==
    IF p > Len(elements) THEN <<>>
    ELSE IF KeepsElement(elements[p]) THEN <<p>> \o KeptFrom(elements, p + 1)
    ELSE KeptFrom(elements, p + 1)

\* what parseTestCasesFromXML throws ("none" when it returns a list)
ParseError(response) ==
    CASE response.kind = "invalid-xml" -> "Invalid XML response"
      [] response.kind = "no-testplan" -> "No <testplan> element found in response"
      [] response.elements = <<>> -> "No <testcase> elements found in response"
      [] OTHER -> "none"

ParseInit ==
    /\ SchedUnused
    /\ RunnerUnused
    /\ configFailOnError = TRUE
    /\ ExecUnused
    /\ GenUnused
    /\ DiffUnused
    /\ MdUnused
    /\ LateUnused
    /\ completion \in Responses
    /\ maxCases \in 1 .. MaxCasesLimit
    /\ testCases = <<>>
    /\ testFilePaths = <<>>
    /\ ppc = "parse"

parseFrame == <<schedVars, testVars, remoteVars, registryVars, sigVars, runVars,
                configFailOnError, execVars, diffVars, mdVars, lateVars, gpc, script,
                attempt, calls, lastError, rawResponse, delays>>

\* the response is parsed; a parse error or an empty list is thrown, otherwise
\* saveTestCasesAsMarkdown is called and awaits mkdir
ParseResponse ==
    /\ ppc = "parse"
    /\ IF ParseError(completion) # "none"
       THEN /\ ppc' = "threw"
            /\ genError' = ParseError(completion)
            /\ UNCHANGED testCases
       ELSE /\ testCases' = KeptFrom(completion.elements, 1)
            /\ IF testCases' = <<>>
               THEN ppc' = "threw" /\ genError' = "No test cases generated from LLM response"
               ELSE ppc' = "mkdir" /\ genError' = genError
    /\ UNCHANGED <<completion, maxCases, testFilePaths, parseFrame>>

\* mkdir settles
ParseMkdir ==
    /\ ppc = "mkdir"
    /\ \E ok \in BOOLEAN :
          IF ok THEN ppc' = "write" /\ genError' = genError
          ELSE ppc' = "threw" /\ genError' = "mkdir failed"
    /\ UNCHANGED <<completion, maxCases, testCases, testFilePaths, parseFrame>>

\* one writeFile settles: the path is pushed; after the last test case the
\* result is returned
ParseWriteFile ==
    /\ ppc = "write"
    /\ \E ok \in BOOLEAN :
          IF ok
          THEN /\ testFilePaths' = Append(testFilePaths, testCases[Len(testFilePaths) + 1])
               /\ ppc' = IF Len(testFilePaths') = Len(testCases) THEN "returned" ELSE "write"
               /\ genError' = genError
          ELSE /\ ppc' = "threw"
               /\ genError' = "writeFile failed"
               /\ UNCHANGED testFilePaths
    /\ UNCHANGED <<completion, maxCases, testCases, parseFrame>>

ParseNext ==
    \/ ParseResponse
    \/ ParseMkdir
    \/ ParseWriteFile

SpecParse == ParseInit /\ [][ParseNext]_vars

----------------------------------------------------------------------------
(* run() with the diff-based generation: loadConfig, validateSetup,          *)
(* runDiffBasedTests, getGitDiff, saveArtifacts                               *)

\* what the environment holds for a numeric setting
NumTexts == {"unset", "abc", "-1", "0", "5"}
NumSettings == {"timeout", "maxConcurrency", "maxDiffSize", "maxTestCases"}

NaN == [nan |-> TRUE, val |-> 0]
Num(v) == [nan |-> FALSE, val |-> v]

\* `parseInt(process.env.X || "<default>", 10)`
ParseInt(text, default) ==
    CASE text = "unset" -> Num(default)
      [] text = "abc" -> NaN
      [] text = "-1" -> Num(-1)
      [] text = "0" -> Num(0)
      [] text = "5" -> Num(5)

\* `x <= 0`: false for NaN
LeqZero(x) == ~x.nan /\ x.val <= 0
\* a number used as a condition: 0 and NaN are falsy
Truthy(x) == ~x.nan /\ x.val # 0

\* the environments: each credential present or not, the revision given or
\* not, the generate-only flag, and at most one numeric setting given
Environments ==
    {e \in [BROWSER_USE_API_KEY : BOOLEAN, OPENAI_API_KEY : BOOLEAN,
            FROM_COMMIT : BOOLEAN, GENERATE_ONLY : BOOLEAN,
            timeout : NumTexts, maxConcurrency : NumTexts,
            maxDiffSize : NumTexts, maxTestCases : NumTexts] :
        Cardinality({f \in NumSettings : e[f] # "unset"}) <= 1}

LoadConfig(e) ==
    [apiKey |-> e.BROWSER_USE_API_KEY,
     openaiApiKey |-> e.OPENAI_API_KEY,
     fromCommit |-> e.FROM_COMMIT,
     generateOnly |-> e.GENERATE_ONLY,
     timeout |-> ParseInt(e.timeout, 300),
     maxConcurrency |-> ParseInt(e.maxConcurrency, 3),
     maxDiffSize |-> ParseInt(e.maxDiffSize, 100000),
     maxTestCases |-> ParseInt(e.maxTestCases, 10)]

\* validateConfig: the error, or "valid"
ValidateConfig(c) ==
    IF c.fromCommit /\ ~c.openaiApiKey
    THEN "OPENAI_API_KEY environment variable is required when using --from-commit"
    ELSE IF ~c.fromCommit /\ ~c.apiKey
    THEN "BROWSER_USE_API_KEY environment variable is not set"
    ELSE IF LeqZero(c.timeout) THEN "TIMEOUT must be a positive number"
    ELSE IF LeqZero(c.maxConcurrency) THEN "MAX_CONCURRENCY must be a positive number"
    ELSE IF Truthy(c.maxDiffSize) /\ LeqZero(c.maxDiffSize)
    THEN "MAX_DIFF_SIZE must be a positive number"
    ELSE IF Truthy(c.maxTestCases) /\ LeqZero(c.maxTestCases)
    THEN "MAX_TEST_CASES must be a positive number"
    ELSE "valid"

\* what git answers: whether the directory is a repository, whether the two
\* references resolve, whether they resolve to the same revision, and the diff
\* text (or a failing git command). Outside a repository no reference
\* resolves; a revision compared with itself has an empty diff
RepoStates ==
    {r \in [isRepo : BOOLEAN, fromValid : BOOLEAN, toValid : BOOLEAN, same : BOOLEAN,
            diff : {"empty", "blank", "text", "git-error"}] :
        /\ ~r.isRepo => (~r.fromValid /\ ~r.toValid)
        /\ r.same => r.diff = "empty"}

\* the reference is looked at before the repository
GetGitDiffRefFirst(r) ==
    IF ~r.fromValid \/ ~r.toValid THEN "Invalid commit reference"
    ELSE IF ~r.isRepo THEN "Not a git repository"
    ELSE IF r.diff = "git-error" THEN "git failed"
    ELSE IF r.diff \in {"empty", "blank"} THEN "No changes found"
    ELSE "ok"
\* getGitDiff: the error it throws, or "ok"
GetGitDiff(r) ==
    IF ~r.isRepo THEN "Not a git repository"
    ELSE IF ~r.fromValid THEN "Invalid commit reference"
    ELSE IF ~r.toValid THEN "Invalid commit reference"
    ELSE IF r.diff = "git-error" THEN "git failed"
    ELSE IF r.diff \in {"empty", "blank"} THEN "No changes found"
    ELSE "ok"

\* the generate-only flag ignored
StopsAfterGenerationNever(c) == FALSE
\* `if (this.config.generateOnly) { ...; return; }` and `return 0` in run()
StopsAfterGeneration(c) == c.generateOnly

\* the catch block returning the code of a clean run
CatchExitCodeZero(message) == 0
\* run()'s catch: `return 2`
CatchExitCode(message) == 2

\* the sessions createSessionPool asks for: `for (i = 0; i < maxConcurrency; i++)`
PoolSize(c) == IF c.maxConcurrency.nan \/ c.maxConcurrency.val < 0 THEN 0
               ELSE c.maxConcurrency.val

NoDiffLog == [diffExtracted |-> FALSE, clientInit |-> FALSE, sessions |-> 0,
              testsRun |-> 0, artifacts |-> {}, failure |-> "none", failedIn |-> "none"]

\* the completions of the service, call by call
DiffScripts ==
    {sc \in [1 .. (MaxRetries + 2) -> Completions] :
        \A k \in (MaxRetries + 1) .. (MaxRetries + 2) : sc[k] = "throw"}

DiffInit ==
    /\ SchedUnused
    /\ RunnerUnused
    /\ configFailOnError = TRUE
    /\ ExecUnused
    /\ GenUnused
    /\ ParseUnused
    /\ MdUnused
    /\ LateUnused
    /\ config \in {LoadConfig(e) : e \in Environments}
    /\ repo = Empty
    /\ dpc = "validate"
    /\ dlog = NoDiffLog

diffFrame == <<schedVars, testVars, remoteVars, registryVars, sigVars, variant,
               saveOutputs, proc, finalPend, configFailOnError, execVars, parseVars,
               mdVars, lateVars>>

\* an error leaves run(): thrown inside the try block it is caught (`return 2`);
\* the finally block finds no session to stop
Fatal(phase, message) ==
    /\ dpc' = "exited"
    /\ exitCode' = CatchExitCode(message)
    /\ dlog' = [dlog EXCEPT !.failure = message, !.failedIn = phase]

\* validateSetup: validateConfig, and without a revision the test directory
\* must exist; on failure run() returns 2 before its try block; in standard
\* mode the client is initialised
DiffValidateSetup ==
    /\ dpc = "validate"
    /\ IF ValidateConfig(config) # "valid"
       THEN /\ dpc' = "exited"
            /\ exitCode' = 2
            /\ dlog' = [dlog EXCEPT !.failure = ValidateConfig(config),
                                    !.failedIn = "config"]
       ELSE IF config.fromCommit
            THEN /\ dpc' = "commit-info"
                 /\ UNCHANGED <<exitCode, dlog>>
            ELSE \E dirExists \in BOOLEAN :
                    IF dirExists
                    THEN /\ dpc' = "execute"
                         /\ dlog' = [dlog EXCEPT !.clientInit = TRUE]
                         /\ UNCHANGED exitCode
                    ELSE /\ dpc' = "exited"
                         /\ exitCode' = 2
                         /\ dlog' = [dlog EXCEPT !.failure = "Test directory does not exist",
                                                 !.failedIn = "config"]
    /\ UNCHANGED <<config, repo, genVars, diffFrame>>

\* getCommitInfo settles; its error is caught and logged
DiffCommitInfo ==
    /\ dpc = "commit-info"
    /\ dpc' = "diff"
    /\ UNCHANGED <<config, repo, dlog, exitCode, genVars, diffFrame>>

\* getGitDiff settles
DiffGetGitDiff ==
    /\ dpc = "diff"
    /\ \E r \in RepoStates :
          /\ repo' = r
          /\ IF GetGitDiff(r) = "ok"
             THEN /\ dpc' = "generate"
                  /\ dlog' = [dlog EXCEPT !.diffExtracted = TRUE]
                  /\ UNCHANGED exitCode
             ELSE Fatal("diff", GetGitDiff(r))
    /\ UNCHANGED <<config, genVars, diffFrame>>

\* generateTestCasesFromDiff is called: the first call of the service is made
DiffGenerateStart ==
    /\ dpc = "generate"
    /\ gpc = "none"
    /\ gpc' = "call"
    /\ script' \in DiffScripts
    /\ attempt' = 1
    /\ calls' = 1
    /\ lastError' = Null
    /\ rawResponse' = NoResponse
    /\ genError' = "none"
    /\ delays' = <<>>
    /\ UNCHANGED <<config, repo, dpc, dlog, exitCode, diffFrame>>

\* generateTestCasesFromDiff settles
DiffGenerateEnds ==
    /\ dpc = "generate"
    /\ gpc \in {"returned", "threw"}
    /\ IF gpc = "threw"
       THEN Fatal("generate", genError)
       ELSE /\ dpc' = "artifacts"
            /\ UNCHANGED <<dlog, exitCode>>
    /\ UNCHANGED <<config, repo, genVars, diffFrame>>

\* saveArtifacts settles: mkdir, the diff file, the response file; then either
\* run() returns 0 (generate-only) or the client is initialised
DiffSaveArtifacts ==
    /\ dpc = "artifacts"
    /\ \E outcome \in {"saved", "mkdir-failed", "diff-failed", "response-failed"} :
          LET written == CASE outcome = "saved" -> {"diff", "response"}
                           [] outcome = "response-failed" -> {"diff"}
                           [] OTHER -> {}
          IN IF outcome # "saved"
             THEN /\ dpc' = "exited"
                  /\ exitCode' = CatchExitCode(outcome)
                  /\ dlog' = [dlog EXCEPT !.artifacts = written, !.failure = outcome,
                                          !.failedIn = "artifacts"]
             ELSE IF StopsAfterGeneration(config)
                  THEN /\ dpc' = "exited"
                       /\ exitCode' = 0
                       /\ dlog' = [dlog EXCEPT !.artifacts = written]
                  ELSE /\ dpc' = "execute"
                       /\ dlog' = [dlog EXCEPT !.artifacts = written, !.clientInit = TRUE]
                       /\ UNCHANGED exitCode
    /\ UNCHANGED <<config, repo, genVars, diffFrame>>

\* runAllTests as a whole, then the report and the exit code: no test file,
\* or the pool is created (one session after the other), the tests run and
\* the results give the code; a session that cannot be created, a rejected
\* per-test function or a failing publication is caught by run()
DiffRunAllTests ==
    /\ dpc = "execute"
    /\ dpc' = "exited"
    /\ \E n \in 0 .. MaxResults :
          IF n = 0
          THEN /\ exitCode' = GetExitCodeOfReport(GenerateReport(<<>>), configFailOnError)
               /\ UNCHANGED dlog
          ELSE \E k \in 0 .. PoolSize(config) :
                  IF k < PoolSize(config)
                  THEN /\ exitCode' = CatchExitCode("Failed to create session pool")
                       /\ dlog' = [dlog EXCEPT !.sessions = k,
                                               !.failure = "Failed to create session pool",
                                               !.failedIn = "execute"]
                  ELSE \E res \in [0 .. (n - 1) -> {Res(st, "") : st \in ResultStatuses}],
                          thrown \in BOOLEAN :
                          IF thrown \/ k = 0
                          THEN /\ exitCode' = CatchExitCode("runAllTests failed")
                               /\ dlog' = [dlog EXCEPT !.sessions = k, !.testsRun = n,
                                                       !.failure = "runAllTests failed",
                                                       !.failedIn = "execute"]
                          ELSE /\ exitCode' = GetExitCodeOfReport(GenerateReport(res),
                                                                  configFailOnError)
                               /\ dlog' = [dlog EXCEPT !.sessions = k, !.testsRun = n]
    /\ UNCHANGED <<config, repo, genVars, diffFrame>>

DiffNext ==
    \/ DiffValidateSetup
    \/ DiffCommitInfo
    \/ DiffGetGitDiff
    \/ DiffGenerateStart
    \/ GenAttemptFails
    \/ GenBackoffDone
    \/ GenCompletion
    \/ GenSaveDone
    \/ DiffGenerateEnds
    \/ DiffSaveArtifacts
    \/ DiffRunAllTests

SpecDiff == DiffInit /\ [][DiffNext]_vars

----------------------------------------------------------------------------
(* generateMarkdownTestCase, then parseTestCase on the written file          *)

MaxTextTokens == 3
MaxTaskLines == 2

\* a text is a sequence of tokens: a word, a colon followed by a blank (or by
\* the end of the line), a double quote, a line break
TextTokens == {"w", ": ", "\"", "\n"}

SeqsUpTo(S, n) == UNION {[1 .. k -> S] : k \in 0 .. n}

\* `String(tc.name).trim()`: no line break at either end; the texts taken
\* start with a word or, for a name, with a quote
Trimmed(text) == text = <<>> \/ (text[1] # "\n" /\ text[Len(text)] # "\n")

Names ==
    {t \in SeqsUpTo(TextTokens, MaxTextTokens) :
        t # <<>> /\ Trimmed(t) /\ t[1] \in {"w", "\""} /\ t # <<"\"">>}
Descriptions ==
    {t \in SeqsUpTo(TextTokens, MaxTextTokens) : Trimmed(t) /\ (t # <<>> => t[1] = "w")}

\* a line of the task: a step, another step, a line that starts with '#'
TaskLineValues == {<<"w">>, <<"v">>, <<"#", "w">>}
Tasks == {t \in SeqsUpTo(TaskLineValues, MaxTaskLines) : t # <<>>}

GeneratedTestCases ==
    [name : Names, description : Descriptions, task : Tasks, expectedOutput : BOOLEAN]

RECURSIVE SplitLines(_)
\* the lines of a text: split at each line break
SplitLines(text) ==
    IF \A k \in DOMAIN text : text[k] # "\n" THEN <<text>>
    ELSE LET k == CHOOSE k \in DOMAIN text :
                     text[k] = "\n" /\ \A j \in 1 .. (k - 1) : text[j] # "\n"
         IN <<SubSeq(text, 1, k - 1)>> \o SplitLines(SubSeq(text, k + 1, Len(text)))

\* the first line gets the prefix of the template line it is put on
Prefixed(prefix, textLines) == <<<<prefix>> \o textLines[1]>> \o Tail(textLines)

\* generateMarkdownTestCase: the lines between the two `---` lines, and the
\* lines after them (no base URL is given)
GenerateMarkdownTestCase(tc) ==
    [front |-> Prefixed("name: ", SplitLines(tc.name))
               \o Prefixed("description: ", SplitLines(tc.description)),
     body |-> <<<<>>>>
              \o Prefixed("# ", SplitLines(tc.name))
              \o <<<<>>>>
              \o SplitLines(tc.description)
              \o <<<<>>, <<"## Task">>, <<>>>>
              \o tc.task
              \o (IF tc.expectedOutput
                  THEN <<<<>>, <<"## Expected Output">>, <<>>, <<"w">>>>
                  ELSE <<>>)]

YamlError == [ok |-> FALSE, value |-> <<>>]
YamlValue(v) == [ok |-> TRUE, value |-> v]

\* the YAML scalar after `key: ` on one line: nothing is null; a text that
\* starts with a double quote is a quoted scalar, which must end the line (an
\* unterminated one is taken as an error); a plain scalar holds no ": "
YamlScalar(text) ==
    IF text = <<>> THEN YamlValue(<<>>)
    ELSE IF text[1] = "\""
    THEN LET closing == {k \in 2 .. Len(text) : text[k] = "\""}
         IN IF closing = {} THEN YamlError
            ELSE LET c == CHOOSE k \in closing : \A j \in closing : k <= j
                 IN IF c < Len(text) THEN YamlError
                    ELSE YamlValue(SubSeq(text, 2, c - 1))
    ELSE IF \E k \in DOMAIN text : text[k] = ": " THEN YamlError
    ELSE YamlValue(text)

FrontKeys == {"name: ", "description: "}

RECURSIVE Matter(_, _, _)
\* matter(content).data: the front matter read line by line from p on; a blank
\* line is skipped, a `key: value` line sets the key, any other line is not a
\* mapping entry and makes the YAML parser throw
Matter(front, p, data) ==
    IF p > Len(front) THEN data
    ELSE IF front[p] = <<>> THEN Matter(front, p + 1, data)
    ELSE IF front[p][1] \notin FrontKeys THEN [data EXCEPT !.ok = FALSE]
    ELSE LET scalar == YamlScalar(Tail(front[p]))
         IN IF ~scalar.ok THEN [data EXCEPT !.ok = FALSE]
            ELSE IF front[p][1] = "name: "
                 THEN Matter(front, p + 1, [data EXCEPT !.name = scalar.value])
                 ELSE Matter(front, p + 1, [data EXCEPT !.description = scalar.value])

NoData == [ok |-> TRUE, name |-> <<>>, description |-> <<>>]

HashTokens == {"# ", "#", "## Task", "## Expected Output"}
\* `trimmed === "# task" || trimmed === "## task"`
IsTaskHeading(ln) == ln = <<"## Task">>
IsExpectedHeading(ln) == ln = <<"## Expected Output">>
\* `line.trim().startsWith("#")`
StartsWithHash(ln) == ln # <<>> /\ ln[1] \in HashTokens

\* a line that starts with '#' inside the task does not end the section
EndsSectionNever(ln) == FALSE
\* `else if (line.trim().startsWith("#")) { inTaskSection = false; ... }`
EndsSection(ln) == StartsWithHash(ln)

RECURSIVE TaskLinesFrom(_, _, _)
\* the loop over the lines: the lines pushed to taskLines, from p on
TaskLinesFrom(body, p, inTaskSection) ==
    IF p > Len(body) THEN <<>>
    ELSE IF IsTaskHeading(body[p]) THEN TaskLinesFrom(body, p + 1, TRUE)
    ELSE IF IsExpectedHeading(body[p]) THEN TaskLinesFrom(body, p + 1, FALSE)
    ELSE IF EndsSection(body[p]) THEN TaskLinesFrom(body, p + 1, FALSE)
    ELSE IF inTaskSection THEN <<body[p]>> \o TaskLinesFrom(body, p + 1, TRUE)
    ELSE TaskLinesFrom(body, p + 1, FALSE)

RECURSIVE TrimLines(_)
\* `.trim()` on joined lines: the blank lines at both ends go
TrimLines(textLines) ==
    IF textLines = <<>> THEN <<>>
    ELSE IF textLines[1] = <<>> THEN TrimLines(Tail(textLines))
    ELSE IF textLines[Len(textLines)] = <<>>
         THEN TrimLines(SubSeq(textLines, 1, Len(textLines) - 1))
    ELSE textLines

\* `path.basename(filePath, path.extname(filePath))`
FileBaseName == <<"1-w">>

\* parseTestCase: null when matter throws or no task content is left,
\* otherwise the name and the task of the test case
ParseTestCase(file) ==
    LET data == Matter(file.front, 1, NoData)
        collected == TaskLinesFrom(TrimLines(file.body), 1, FALSE)
        taskContent == IF Len(collected) > 0 THEN TrimLines(collected)
                       ELSE TrimLines(file.body)
    IN IF ~data.ok \/ taskContent = <<>> THEN Empty
       ELSE [name |-> IF data.name = <<>> THEN FileBaseName ELSE data.name,
             task |-> taskContent]

MdInit ==
    /\ SchedUnused
    /\ RunnerUnused
    /\ configFailOnError = TRUE
    /\ ExecUnused
    /\ GenUnused
    /\ DiffUnused
    /\ ParseUnused
    /\ LateUnused
    /\ mdCase \in GeneratedTestCases
    /\ markdown = Empty
    /\ reparsed = Empty
    /\ mpc = "generate"

mdFrame == <<schedVars, testVars, remoteVars, registryVars, sigVars, runVars,
             configFailOnError, execVars, genVars, diffVars, parseVars, lateVars>>

\* saveTestCasesAsMarkdown writes the markdown of the test case
MdGenerate ==
    /\ mpc = "generate"
    /\ markdown' = GenerateMarkdownTestCase(mdCase)
    /\ mpc' = "parse"
    /\ UNCHANGED <<mdCase, reparsed, mdFrame>>

\* the runner reads the file back
MdParse ==
    /\ mpc = "parse"
    /\ reparsed' = ParseTestCase(markdown)
    /\ mpc' = "parsed"
    /\ UNCHANGED <<mdCase, markdown, mdFrame>>

MdNext ==
    \/ MdGenerate
    \/ MdParse

SpecMarkdown == MdInit /\ [][MdNext]_vars

----------------------------------------------------------------------------
(* executeTest over a given stream of updates: the `for await` loop over     *)
(* task.watch()                                                              *)

MaxStream == 3

\* taskResult.output of the updates of a stream
StreamOutputs ==
    { <<"<status>", "completed", "</status>">>,
      <<"<status>", "failed", "</status>">> }

\* an update of the stream: its event, and in its data a status and an output;
\* `elapsed` is the time at which the loop receives it.  The time is varied
\* where the code reads it (a stopped status), the output where it can be read
\* (a finished or stopped status)
StreamUpdates ==
    {u \in [event : {"status", "message"}, status : {"started", "finished", "stopped"},
            output : StreamOutputs, elapsed : {299, 300}, files : {"none"}] :
        /\ u.status # "stopped" => u.elapsed = 299
        /\ u.status = "started" => u.output = <<"<status>", "completed", "</status>">>}

\* a loop that reads the status of every event
IsStatusEventAlways(update) == TRUE
\* `if (update.event === 'status')`
IsStatusEvent(update) == update.event = "status"

\* `if (status === "finished" || status === "stopped")`
IsTerminal(status) == status \in {"finished", "stopped"}

\* update.data
UpdateData(update) ==
    [status |-> update.status, output |-> update.output, elapsed |-> update.elapsed,
     files |-> update.files]

WatchInit ==
    /\ SchedUnused
    /\ RunnerUnused
    /\ GenUnused
    /\ DiffUnused
    /\ ParseUnused
    /\ MdUnused
    /\ TruncUnused
    /\ configFailOnError = TRUE
    /\ xpc = "create"
    /\ xconf = [saveOutputs |-> FALSE, timeout |-> ConfigTimeout]
    /\ session = 0
    /\ taskResult = NoUpdate
    /\ result = ExecResult("pending", Null, 0, NoOutput, 0)
    /\ saveAt = 0
    /\ xlog = NoLog
    /\ stream \in SeqsUpTo(StreamUpdates, MaxStream)
    /\ taken = 0
    /\ wend = "open"

watchFrame == <<schedVars, testVars, remoteVars, registryVars, sigVars, runVars,
                configFailOnError, genVars, diffVars, parseVars, mdVars, truncVars>>

\* one iteration of the loop: the next update of the stream; a status that is
\* finished or stopped is kept and breaks the loop, the resolution follows
WatchUpdate ==
    /\ xpc = "watch"
    /\ wend = "open"
    /\ taken < Len(stream)
    /\ taken' = taken + 1
    /\ LET update == stream[taken + 1]
       IN IF IsStatusEvent(update) /\ IsTerminal(update.status)
          THEN /\ wend' = "broke"
               /\ ExecTerminal(UpdateData(update))
          ELSE /\ wend' = wend
               /\ xlog' = [xlog EXCEPT
                             !.events = @ + 1,
                             !.lastStatus = IF IsStatusEvent(update)
                                            THEN update.status ELSE @]
               /\ UNCHANGED <<xpc, taskResult, result>>
    /\ UNCHANGED <<xconf, session, saveAt, stream, watchFrame>>

\* the stream is exhausted: the loop ends with taskResult unset,
\* `throw new Error("Task did not complete successfully")`
WatchStreamEnds ==
    /\ xpc = "watch"
    /\ wend = "open"
    /\ taken = Len(stream)
    /\ wend' = "ended"
    /\ \E elapsed \in Elapsed : ExecCatch("Task did not complete successfully", elapsed)
    /\ UNCHANGED <<xconf, session, taskResult, saveAt, stream, taken, watchFrame>>

\* the iterator of the stream throws
WatchThrows ==
    /\ xpc = "watch"
    /\ wend = "open"
    /\ wend' = "threw"
    /\ \E elapsed \in Elapsed : ExecCatch("watch failed", elapsed)
    /\ UNCHANGED <<xconf, session, taskResult, saveAt, stream, taken, watchFrame>>

WatchNext ==
    \/ ExecCreateSessionOk
    \/ ExecCreateSessionFails
    \/ ExecCreateTaskOk
    \/ ExecCreateTaskFails
    \/ WatchUpdate
    \/ WatchStreamEnds
    \/ WatchThrows
    \/ ExecStopDone

SpecWatch == WatchInit /\ [][WatchNext]_vars

----------------------------------------------------------------------------
(* getGitDiff from the text of git.diff on: the empty check, the truncation  *)

MaxDiffLen == 4

\* the characters of a diff text: a visible one and a blank
DiffChars == {"+", " "}

\* `options.maxDiffSize || 100000`
DefaultMaxDiffSize == 100000

\* the text appended to a truncated diff, as one piece
TruncationMarker == "... [diff truncated due to size] ..."

\* config.maxDiffSize as validateConfig lets it through: NaN, 0, or positive
SizeOptions ==
    {NaN, Num(0), Num(1), Num(2), Num(MaxDiffLen), Num(DefaultMaxDiffSize)}

\* `!diff || diff.trim().length === 0`
IsBlankDiff(diff) == \A p \in 1 .. Len(diff) : diff[p] = " "

\* `const maxSize = options.maxDiffSize || 100000`
MaxSize(option) == IF Truthy(option) THEN option.val ELSE DefaultMaxDiffSize

\* `if (diff.length > maxSize) diff = diff.substring(0, maxSize) + marker`
Truncate(diff, option) ==
    IF Len(diff) > MaxSize(option)
    THEN SubSeq(diff, 1, MaxSize(option)) \o <<TruncationMarker>>
    ELSE diff

TruncInit ==
    /\ SchedUnused
    /\ RunnerUnused
    /\ configFailOnError = TRUE
    /\ ExecUnused
    /\ GenUnused
    /\ DiffUnused
    /\ ParseUnused
    /\ MdUnused
    /\ WatchUnused
    /\ rawDiff \in SeqsUpTo(DiffChars, MaxDiffLen)
    /\ sizeOption \in SizeOptions
    /\ gitDiff = Empty

truncFrame == <<schedVars, testVars, remoteVars, registryVars, sigVars, runVars,
                configFailOnError, execVars, genVars, diffVars, parseVars, mdVars,
                watchVars>>

\* git.diff has given its text: getGitDiff throws on a blank one, otherwise
\* returns it, truncated if it is too long
TruncGetGitDiff ==
    /\ gitDiff = Empty
    /\ gitDiff' = IF IsBlankDiff(rawDiff)
                  THEN [ok |-> FALSE, diff |-> <<>>]
                  ELSE [ok |-> TRUE, diff |-> Truncate(rawDiff, sizeOption)]
    /\ UNCHANGED <<rawDiff, sizeOption, truncFrame>>

TruncNext == TruncGetGitDiff

SpecTruncate == TruncInit /\ [][TruncNext]_vars

----------------
(* C1: at every moment of a runWithConcurrency call at most K invocations  *)
(* of the per-item function have been started and have not yet settled.    *)
C1_AtMostKInFlight == Cardinality(InFlight) <= maxConcurrency

C1_Witness ==
    /\ maxConcurrency = 2
    /\ Cardinality(InFlight) = 2
    /\ pc = "race"
    /\ i < N

(* C2: when runWithConcurrency returns, the array has length N and its     *)
(* element i is the outcome of the call made for input item i, whatever    *)
(* order the calls completed in.                                           *)
C2_ResultsInInputOrder ==
    pc = "done" =>
        /\ DOMAIN results = Indices
        /\ \A idx \in Indices :
              /\ results[idx] # Empty
              /\ results[idx] = returned[idx]
              /\ results[idx].index = idx
              /\ results[idx].item = items[idx]

\* three items, a call settled while a call of a lower index still ran, and
\* runWithConcurrency returned
C2_Witness ==
    /\ pc = "done"
    /\ N = 3
    /\ outOfOrder
    /\ results[0].out = "x"
    /\ results[1].out = "y"

(* C3: when the per-item function rejects for one item, runWithConcurrency *)
(* captures the failure in that item's slot and does not itself throw.     *)
C3_RejectionCaptured == ~(pc = "thrown" /\ error = "rejected")

(* C4: for every session created during a run exactly one stop call is     *)
(* issued, never zero and never two, when the run ends normally and when   *)
(* it is interrupted: once the process has exited, each created session    *)
(* has had one stop call.                                                  *)
C4_ExactlyOneStopPerSession ==
    proc = "exited" => \A s \in Sessions : TotalStops(s) = 1

(* C5: in the executeTest that creates its own session, a test that is     *)
(* past the finally block has had one stop call issued for its session,    *)
(* whatever the exit path; a test with no session (creation failed) has    *)
(* caused no stop call.                                                    *)
C5_StopOnEveryExitPath ==
    /\ \A idx \in Indices :
          (tpc[idx] = "done" /\ tsess[idx] # 0) => stopCalls[tsess[idx]].test = 1
    /\ \A s \in Sessions :
          stopCalls[s].test =
              Cardinality({idx \in Indices :
                              tsess[idx] = s /\ tpc[idx] \in {"stop", "done"}})

\* test 0 left through the exception on a null output file and its session got
\* its stop call; test 1 failed to create a session, and no session exists for it
C5_Witness ==
    /\ N = 2
    /\ tpc[0] = "done"
    /\ tpc[1] = "done"
    /\ results[0] = Res("failed", "Cannot read properties of null")
    /\ results[1] = Res("failed", "createSession failed")
    /\ tsess[0] = 1
    /\ tsess[1] = 0
    /\ created = 1
    /\ stopCalls[1].test = 1

(* C6: every remote session receives at most one task over its lifetime:   *)
(* no session is taken from a pool or used by a second test.               *)
C6_OneTaskPerSession == \A s \in Sessions : tasksIn[s] <= 1

(* C7: when SIGINT or SIGTERM arrives, a stop call is issued by the        *)
(* handler for every session that is open at that moment (createSession    *)
(* has returned it and its test's stop call has not settled), before the   *)
(* process exits.                                                          *)
C7_HandlerStopsEveryOpenSession ==
    \A s \in openAtSig : stopCalls[s].handler >= 1

\* a signal found two sessions open, and the process has exited with 130
C7_Witness ==
    /\ sigs = 1
    /\ Cardinality(openAtSig) = 2
    /\ proc = "exited"
    /\ exitCode = 130

(* C8: each run of the shutdown handler attempts the stop call of each     *)
(* session once, a failed stop call is never issued again, and when all    *)
(* the stop calls of a handler run have settled the process has exited     *)
(* with code 130, even if every one of them failed.                        *)
C8_HandlerStopsOnceAndExits ==
    /\ \A s \in Sessions :
          stopCalls[s].handler = Cardinality({h \in 1 .. sigs : s \in hsnap[h]})
    /\ \A h \in 1 .. sigs :
          /\ hfail[h] \subseteq hsnap[h]
          /\ hpend[h] = {} => (proc = "exited" /\ exitCode = 130)

\* the handler stopped two sessions, both stop calls failed, the process exited
C8_Witness ==
    /\ sigs = 1
    /\ Cardinality(hsnap[1]) = 2
    /\ hfail[1] = hsnap[1]
    /\ hpend[1] = {}
    /\ proc = "exited"
    /\ exitCode = 130
    /\ \A s \in hsnap[1] : stopCalls[s].handler = 1

(* C9: after an interrupt has been received the scheduler starts no        *)
(* further queued test and no new session is created.                      *)
C9_RunCancelledAfterInterrupt ==
    [][sigs > 0 =>
          /\ created' = created
          /\ \A idx \in Indices : call[idx] = "unstarted" => call'[idx] = "unstarted"]_vars

(* C10: every session that is created eventually has a stop call issued    *)
(* for it: once the process has exited, no created session is left         *)
(* without a stop call.                                                    *)
C10_EverySessionStopped ==
    proc = "exited" => \A s \in Sessions : TotalStops(s) >= 1

\* the reading of an output the claims about the completion marker use: an
\* opening tag, the marker's value without case and surrounding blanks
IsOpenTag(tok) == tok \in {"<status>", "<STATUS>", "<Status>"}
IsCloseTag(tok) == tok \in {"</status>", "</STATUS>", "</Status>"}
MarkerValue(tok) ==
    CASE tok \in {"completed", " COMPLETED "} -> "completed"
      [] tok \in {"failed", "Failed"} -> "failed"
      [] tok \in {"not-finished", "Not-Finished"} -> "not-finished"
      [] OTHER -> Null
TagsOf(out) == {p \in 1 .. Len(out) : IsOpenTag(out[p])}

C12_FailedTagAnywhere ==
    (/\ xpc = "returned"
     /\ taskResult.status = "finished"
     /\ \E p \in 1 .. (Len(taskResult.output) - 2) :
           /\ taskResult.output[p] = "<status>"
           /\ taskResult.output[p + 1] = "failed"
           /\ taskResult.output[p + 2] = "</status>")
    => result.status = "failed"

(* C13: when the terminal status is `stopped`, the result is timeout if the  *)
(* elapsed seconds are greater than or equal to the test's timeout, and      *)
(* otherwise failed with the stopped-before-completion error.                *)
C13_StoppedTimeoutOrFailed ==
    (xpc = "returned" /\ taskResult.status = "stopped") =>
        IF taskResult.elapsed >= xconf.timeout
        THEN result.status = "timeout"
        ELSE /\ result.status = "failed"
             /\ result.error = "Task was stopped before completion"

\* stopped after exactly the timeout: a timeout
C13_Witness ==
    /\ xpc = "returned"
    /\ taskResult.status = "stopped"
    /\ taskResult.elapsed = xconf.timeout
    /\ result.status = "timeout"
    /\ result.duration = 300

(* C14: an execution error local to one test (session creation failure,     *)
(* task submission failure) yields a result with status error, not failed.   *)
C14_ExecutionErrorIsError ==
    (xpc = "returned" /\ result.error \in {"createSession failed", "createTask failed"})
    => result.status = "error"

(* C15: executeTest never throws: whatever fails (session creation, task     *)
(* submission, the status stream, the output files, the session stop), the   *)
(* call returns a result with a resolved status.                             *)
C15_ExecuteTestNeverThrows ==
    /\ xpc # "threw"
    /\ xpc = "returned" =>
          result.status \in {"passed", "failed", "timeout", "not-finished"}

\* task submission failed, the stop call failed too, and the call returned
C15_Witness ==
    /\ xpc = "returned"
    /\ result.status = "failed"
    /\ result.error = "createTask failed"
    /\ xlog.stopFailed
    /\ xlog.stops = 1

(* C16: output files are fetched only when the result is passed, and a      *)
(* failure to get the signed URL, to download or to write a file (or to      *)
(* create the directory) leaves the result's status and error unchanged.     *)
C16_ArtifactFailureKeepsStatus ==
    (xpc \in {"ensureDir", "saving"} \/ saveAt > 0 \/ xlog.saved > 0) =>
        /\ result.status = "passed"
        /\ result.error = Null
        /\ taskResult.status = "finished"

\* every file failed to save, and the test came back passed
C16_Witness ==
    /\ xpc = "returned"
    /\ saveAt = MaxFiles
    /\ xlog.saved = 0
    /\ xlog.warnings >= MaxFiles
    /\ result.status = "passed"
    /\ result.outputFiles = MaxFiles

HasStatus(res, status) == \E idx \in DOMAIN res : res[idx].status = status

(* C17: the exit code computed from the results is 2 whenever a result has  *)
(* status error; otherwise 1 when a result has status failed or timeout and  *)
(* fail-on-error is true; otherwise 0.                                       *)
C17_ExitCodePolicy ==
    proc = "returned" =>
        exitCode =
            IF HasStatus(results, "error") THEN 2
            ELSE IF (HasStatus(results, "failed") \/ HasStatus(results, "timeout"))
                    /\ configFailOnError
                 THEN 1
                 ELSE 0

\* the results without the not-finished ones, in order
WithoutNotFinished(res) ==
    SelectSeq([k \in 1 .. Cardinality(DOMAIN res) |-> res[k - 1]],
              LAMBDA r : r.status # "not-finished")

(* C18: not-finished results never influence the exit code: the exit code   *)
(* of a result list is the exit code of the same list with its              *)
(* not-finished results removed, also with fail-on-error and failed tests.   *)
C18_NotFinishedNeverCounts ==
    proc = "returned" =>
        exitCode = GetExitCodeOfReport(GenerateReport(WithoutNotFinished(results)),
                                       configFailOnError)

\* a not-finished and a failed result with fail-on-error: exit code 1, as for
\* the failed result alone
C18_Witness ==
    /\ proc = "returned"
    /\ configFailOnError
    /\ Cardinality(DOMAIN results) = 2
    /\ results[0].status = "not-finished"
    /\ results[1].status = "failed"
    /\ exitCode = 1

GenEnded == gpc \in {"save", "returned", "threw"}

(* C19: the generation client calls the generative service at most 3 times: *)
(* an empty completion or a thrown call is a failed attempt and is retried,  *)
(* the first non-empty completion is returned with no further call, and      *)
(* after 3 failed attempts generation fails with a generation-failed error.  *)
C19_AtMostThreeCalls ==
    /\ calls <= 3
    /\ \A k \in 1 .. (calls - 1) : script[k] \in {"throw", "empty"}
    /\ (GenEnded /\ script[calls] \notin {"throw", "empty"}) =>
          rawResponse = [kind |-> script[calls], attempt |-> calls]
    /\ (GenEnded /\ script[calls] \in {"throw", "empty"}) =>
          /\ calls = 3
          /\ gpc = "threw"
          /\ genError = "Failed to generate test cases"
          /\ rawResponse = NoResponse
    /\ (gpc \in {"call", "backoff"} /\ calls = 3) => attempt = 3

\* two failed attempts, then the third call's completion is returned and used
C19_Witness ==
    /\ gpc = "returned"
    /\ calls = 3
    /\ script[1] = "empty"
    /\ script[2] = "throw"
    /\ script[3] = "valid"
    /\ rawResponse = [kind |-> "valid", attempt |-> 3]

(* C20: if the service returns non-empty malformed text on attempts 1 and 2 *)
(* and valid text on attempt 3, generation succeeds using the attempt-3      *)
(* text.                                                                     *)
C20_MalformedIsRetried ==
    (/\ GenEnded
     /\ script[1] = "malformed"
     /\ script[2] = "malformed"
     /\ script[3] = "valid")
    => /\ gpc # "threw"
       /\ rawResponse = [kind |-> "valid", attempt |-> 3]

(* C30: in runWithConcurrency, whenever an in-flight call completes, by      *)
(* success or by failure, while unstarted (defined) items remain, the loop    *)
(* resumes and starts the next unstarted item without waiting for any other   *)
(* in-flight call.                                                            *)
C30_NextStartsOnCompletion ==
    [][\A idx \in Indices :
          (/\ call[idx] = "running"
           /\ call'[idx] \in {"fulfilled", "rejected"}
           /\ pc = "race"
           /\ i < N
           /\ items[i] # Undefined)
          => pc' = "loop"]_vars

Lacks(v) == v \in {"absent", "blank"}

RECURSIVE Survivors(_, _)
\* the positions of the test cases that lack neither name nor task, in order
Survivors(elements, p) ==
    IF p > Len(elements) THEN <<>>
    ELSE IF ~Lacks(elements[p].name) /\ ~Lacks(elements[p].task)
         THEN <<p>> \o Survivors(elements, p + 1)
         ELSE Survivors(elements, p + 1)

NoTestCasesErrors ==
    {"No <testcase> elements found in response", "No test cases generated from LLM response"}

(* C24: when the completion is parsed, a test case lacking name or task is   *)
(* dropped without failing generation and the remaining cases survive in     *)
(* their original order; generation fails with a no-test-cases error exactly *)
(* when no case survives.                                                    *)
C24_InvalidCasesDropped ==
    (ppc \notin {"none", "parse"} /\ completion.kind = "testplan") =>
        /\ (Survivors(completion.elements, 1) # <<>>) =>
              testCases = Survivors(completion.elements, 1)
        /\ (genError \in NoTestCasesErrors) <=> (Survivors(completion.elements, 1) = <<>>)

(* C28: the number of test cases generateTestCasesFromDiff returns, and of   *)
(* test files it writes, never exceeds the configured maximum test-case      *)
(* count, whatever number of cases the generative service returns.           *)
C28_AtMostMaxTestCases ==
    /\ Len(testCases) <= maxCases
    /\ Len(testFilePaths) <= maxCases

\* the failure the diff extraction is to report for a repository state: the
\* first of not-a-repository, invalid-reference, empty-diff that applies
ExpectedDiffFailure(r) ==
    IF ~r.isRepo THEN "Not a git repository"
    ELSE IF ~(r.fromValid /\ r.toValid) THEN "Invalid commit reference"
    ELSE IF r.diff \in {"empty", "blank"} THEN "No changes found"
    ELSE "other"

NothingExecuted ==
    /\ ~dlog.clientInit
    /\ dlog.sessions = 0
    /\ dlog.testsRun = 0

(* C21: diff extraction fails with not-a-repository, invalid-reference or    *)
(* empty-diff, checked in that order; in each of these cases the generative  *)
(* service is never called and no test is run; a diff between two identical  *)
(* revisions fails with empty-diff.                                          *)
C21_DiffFailuresInOrder ==
    (dpc # "none" /\ repo # Empty) =>
        /\ (ExpectedDiffFailure(repo) # "other") =>
              /\ dpc = "exited"
              /\ dlog.failedIn = "diff"
              /\ dlog.failure = ExpectedDiffFailure(repo)
              /\ calls = 0
              /\ gpc = "none"
              /\ NothingExecuted
        /\ (repo.isRepo /\ repo.fromValid /\ repo.toValid /\ repo.same) =>
              dlog.failure = "No changes found"

\* two valid references to the same revision: empty-diff, nothing else done
C21_Witness ==
    /\ dpc = "exited"
    /\ repo # Empty
    /\ repo.isRepo /\ repo.fromValid /\ repo.toValid /\ repo.same
    /\ dlog.failure = "No changes found"
    /\ calls = 0

(* C22: when the generation phase fails for any reason (invalid reference,   *)
(* empty diff, retries exhausted, unparseable response, zero parsed cases),  *)
(* no remote session is created, no test is executed afterwards, and the     *)
(* process exit code is 2.                                                   *)
C22_GenerationFailureIsFatal ==
    (dpc # "none" /\ (dlog.failedIn \in {"diff", "generate"} \/ gpc = "threw")) =>
        /\ NothingExecuted
        /\ dpc = "exited" => (exitCode = 2 /\ dlog.failedIn \in {"diff", "generate"})
        /\ dpc \in {"generate", "exited"}

\* the response held no usable test case: exit code 2, nothing executed
C22_Witness ==
    /\ dpc = "exited"
    /\ ~config.generateOnly
    /\ gpc = "threw"
    /\ genError = "No test cases generated from LLM response"
    /\ exitCode = 2

\* a credential is missing for a service the run goes on to use: the
\* generative service with a revision given, the browser service unless the
\* run generates only
MissingCredential(c) ==
    \/ c.fromCommit /\ ~c.openaiApiKey
    \/ ~(c.fromCommit /\ c.generateOnly) /\ ~c.apiKey

InvalidNumber(x) == x.nan \/ x.val <= 0

ConfigurationError(c) ==
    \/ MissingCredential(c)
    \/ \E f \in NumSettings : InvalidNumber(c[f])

(* C23: a configuration error (a missing credential for a service the run   *)
(* goes on to use, or an invalid numeric setting for timeout, max            *)
(* concurrency, max diff size or max test-case count) makes run() return     *)
(* exit code 2 before any diff is extracted, any generative call is made or  *)
(* any session is created.                                                   *)
C23_ConfigurationErrorIsFatal ==
    (dpc \notin {"none", "validate"} /\ ConfigurationError(config)) =>
        /\ dpc = "exited"
        /\ exitCode = 2
        /\ dlog.failedIn = "config"
        /\ ~dlog.diffExtracted
        /\ calls = 0
        /\ NothingExecuted

(* C25: the raw diff text and the raw completion text are persisted as       *)
(* artifacts on every generation run, whether generation then succeeds or    *)
(* fails (for example on parsing or on zero surviving cases).                *)
C25_ArtifactsAlwaysPersisted ==
    (dpc = "exited" /\ gpc \in {"returned", "threw"} /\ rawResponse # NoResponse
        /\ dlog.failedIn # "artifacts") =>
        dlog.artifacts = {"diff", "response"}

(* C29: in generate-only mode, after a successful generation no execution    *)
(* client is initialised, no session is created and no test is executed,     *)
(* and run() returns exit code 0.                                            *)
C29_GenerateOnlyStops ==
    (dpc # "none" /\ config.fromCommit /\ config.generateOnly) =>
        /\ NothingExecuted
        /\ dpc # "execute"
        /\ (dpc = "exited" /\ gpc = "returned" /\ dlog.failedIn = "none") => exitCode = 0

\* generate-only, the generation succeeded on a retry: run() has returned 0
C29_Witness ==
    /\ dpc = "exited"
    /\ config.fromCommit
    /\ config.generateOnly
    /\ gpc = "returned"
    /\ calls = 2
    /\ dlog.artifacts = {"diff", "response"}
    /\ exitCode = 0

(* C26: for every generated test case, including names and descriptions     *)
(* that contain colons, quotes or newlines and task text that contains       *)
(* lines starting with '#', serialising it with generateMarkdownTestCase and *)
(* re-parsing the file with parseTestCase yields the same name and the same  *)
(* task text.                                                                *)
C26_MarkdownRoundTrip ==
    mpc = "parsed" =>
        /\ reparsed # Empty
        /\ reparsed.name = mdCase.name
        /\ reparsed.task = mdCase.task

TerminalPositions ==
    {p \in 1 .. Len(stream) :
        stream[p].event = "status" /\ stream[p].status \in {"finished", "stopped"}}
FirstTerminalAt ==
    IF TerminalPositions = {} THEN 0
    ELSE CHOOSE p \in TerminalPositions : \A q \in TerminalPositions : p <= q

\* what a terminal update alone calls for (its output holds one status tag)
OutcomeOf(update) ==
    CASE update.status = "finished" /\ update.output[2] = "completed" ->
            [status |-> "passed", error |-> Null]
      [] update.status = "finished" /\ update.output[2] = "failed" ->
            [status |-> "failed",
             error |-> "Browser Use reported task failure (status tag: failed)"]
      [] update.status = "stopped" /\ update.elapsed >= ConfigTimeout ->
            [status |-> "timeout", error |-> "Test exceeded timeout"]
      [] OTHER -> [status |-> "failed", error |-> "Task was stopped before completion"]

(* C32: the result of a test is decided by the first finished or stopped     *)
(* status update of the stream: the loop pulls the updates in order, never   *)
(* pulls one past the first terminal status update, passes over non-status   *)
(* events and non-terminal statuses, and the result (status, error, output)  *)
(* is what that first terminal update alone calls for.                       *)
C32_FirstTerminalDecides ==
    xpc # "none" =>
        /\ taken <= Len(stream)
        /\ FirstTerminalAt # 0 => taken <= FirstTerminalAt
        /\ wend = "open" => (taskResult = NoUpdate /\ xlog.events = taken)
        /\ wend = "ended" => (FirstTerminalAt = 0 /\ taken = Len(stream))
        /\ wend = "broke" =>
              /\ FirstTerminalAt # 0
              /\ taken = FirstTerminalAt
              /\ LET first == stream[FirstTerminalAt]
                 IN /\ taskResult.status = first.status
                    /\ taskResult.output = first.output
                    /\ result.output = first.output
                    /\ result.status = OutcomeOf(first).status
                    /\ result.error = OutcomeOf(first).error

\* a non-status event that carries the status finished, then a stopped status
\* update, then a finished one: the call returned, decided by the second
C32_Witness ==
    /\ xpc = "returned"
    /\ wend = "broke"
    /\ Len(stream) = 3
    /\ stream[1].event = "message" /\ stream[1].status = "finished"
    /\ stream[1].output[2] = "completed"
    /\ stream[2].event = "status" /\ stream[2].status = "stopped"
    /\ stream[2].elapsed = 299
    /\ stream[3].event = "status" /\ stream[3].status = "finished"
    /\ stream[3].output[2] = "completed"
    /\ taken = 2
    /\ result.status = "failed"

\* the result the per-item function gives for an unparseable file
InvalidResult == Res("error", "Failed to parse test case")

(* C33: a test file that parseTestCase cannot turn into a test case (parse   *)
(* error, or no task content) gets a result with status error, no session is *)
(* created for it, and the run goes on: runWithConcurrency does not throw,   *)
(* a session exists only for a test whose file was parsed, and when the      *)
(* scheduler returns every file has its result.                              *)
C33_ParseFailureIsLocal ==
    /\ \A idx \in Indices :
          returned[idx] = InvalidResult =>
              /\ results[idx].status = "error"
              /\ tsess[idx] = 0
              /\ tpc[idx] = "done"
    /\ created = Cardinality({idx \in Indices : tsess[idx] # 0})
    /\ pc # "thrown"
    /\ pc = "done" => \A idx \in Indices : results[idx] # Empty

\* two files under limit 1: the first could not be parsed, the second was run
\* in a session after it and passed
C33_Witness ==
    /\ N = 2
    /\ maxConcurrency = 1
    /\ pc = "done"
    /\ results[0] = InvalidResult
    /\ tsess[0] = 0
    /\ tsess[1] = 1
    /\ results[1].status = "passed"
    /\ created = 1

(* C34: between failed attempt n and attempt n+1 (n = 1, 2) callLLMWithRetry *)
(* waits 2^n x 1000 ms, that is 2000 ms and then 4000 ms; every attempt      *)
(* after the first is preceded by exactly one wait, and after the last       *)
(* failed attempt the call fails without a further wait.                     *)
C34_ExponentialBackoff ==
    gpc # "none" =>
        /\ delays \in {<<>>, <<2000>>, <<2000, 4000>>}
        /\ \A n \in 1 .. (Len(delays) - 1) : delays[n] < delays[n + 1]
        /\ gpc = "backoff" => Len(delays) = attempt
        /\ gpc = "call" => Len(delays) = attempt - 1
        /\ (gpc = "threw" /\ genError = "Failed to generate test cases") =>
              (calls = MaxRetries /\ Len(delays) = MaxRetries - 1)

\* three failed attempts: two waits, then the failure
C34_Witness ==
    /\ gpc = "threw"
    /\ genError = "Failed to generate test cases"
    /\ calls = 3
    /\ delays = <<2000, 4000>>
    /\ lastError = "Empty response from LLM"

(* C35: getGitDiff returns a diff of at most maxDiffSize characters          *)
(* unchanged, and a longer diff as exactly its first maxDiffSize characters  *)
(* followed by the truncation marker (maxDiffSize a number).                 *)
C35_TruncatedAtMaxDiffSize ==
    (gitDiff # Empty /\ gitDiff.ok /\ ~sizeOption.nan) =>
        IF Len(rawDiff) <= sizeOption.val
        THEN gitDiff.diff = rawDiff
        ELSE gitDiff.diff = SubSeq(rawDiff, 1, sizeOption.val) \o <<TruncationMarker>>

(* C36: a result that executeTest returns never keeps the initial status     *)
(* pending: the status is pending only before the resolution (while the      *)
(* session or the task is created or the stream is watched), and from the    *)
(* resolution or the catch block on it is passed, failed, timeout or         *)
(* not-finished.                                                             *)
C36_NoPendingResult ==
    xpc # "none" =>
        /\ result.status \in {"pending", "passed", "failed", "timeout", "not-finished"}
        /\ result.status = "pending" <=> xpc \in {"create", "task", "watch"}

\* a finished task whose output says not-finished: returned as not-finished
C36_Witness ==
    /\ xpc = "returned"
    /\ session = 1
    /\ taskResult.status = "finished"
    /\ result.status = "not-finished"
    /\ xlog.stops = 1

(* C37: a task whose terminal status is stopped never yields a passed        *)
(* result, even when its output holds <status>completed</status>: the result *)
(* is failed or timeout, and no output file is listed or saved for it.       *)
C37_StoppedNeverPasses ==
    (xpc # "none" /\ taskResult.status = "stopped") =>
        /\ result.status \in {"failed", "timeout"}
        /\ result.outputFiles = 0
        /\ xlog.saved = 0

\* stopped before the timeout with a completed tag in the output: failed
C37_Witness ==
    /\ xpc = "returned"
    /\ taskResult.status = "stopped"
    /\ taskResult.output = <<"<status>", "completed", "</status>">>
    /\ taskResult.elapsed = 299
    /\ taskResult.files = "some"
    /\ result.status = "failed"
    /\ result.error = "Task was stopped before completion"

(* C38: when the status stream ends without a finished or stopped status     *)
(* update, the result is failed with the error 'Task did not complete        *)
(* successfully', and the stop call of the session has been issued when      *)
(* executeTest returns.                                                      *)
C38_StreamEndIsFailure ==
    /\ wend = "ended" =>
          /\ TerminalPositions = {}
          /\ taskResult = NoUpdate
          /\ result.status = "failed"
          /\ result.error = "Task did not complete successfully"
          /\ session # 0
          /\ xlog.stops = 1
          /\ xpc \in {"stop", "returned"}
    /\ (xpc = "returned" /\ wend \notin {"open", "threw"} /\ TerminalPositions = {}) =>
          wend = "ended"

\* a stream of a non-status event and a started status, then its end: the
\* call returned after its stop call failed
C38_Witness ==
    /\ xpc = "returned"
    /\ wend = "ended"
    /\ Len(stream) = 2
    /\ stream[1].event = "message"
    /\ stream[2].event = "status" /\ stream[2].status = "started"
    /\ taken = 2
    /\ xlog.stops = 1
    /\ xlog.stopFailed
    /\ result.error = "Task did not complete successfully"

(* C39: for every list of N >= 0 items and every limit K >= 1, if every call *)
(* of the per-item function that is made eventually settles, then            *)
(* runWithConcurrency eventually settles, by returning or by throwing; for   *)
(* N = 0 it returns, and the array it returns is empty, no call of the       *)
(* per-item function having been made.                                       *)
C39_EventuallySettles ==
    /\ <>(pc \in {"done", "thrown"})
    /\ (N = 0) => <>(pc = "done" /\ results = <<>> /\ call = <<>>)

\* three items under limit 1, each call awaited in turn: the array is returned
C39_Witness ==
    /\ N = 3
    /\ maxConcurrency = 1
    /\ pc = "done"
    /\ ~outOfOrder
    /\ \A idx \in Indices : call[idx] = "fulfilled" /\ results[idx].out = "y"

====
